---------------------------- MODULE Spec2Model ----------------------------
(***************************************************************************)
(* Voice agent (speech -> text -> LLM -> speech) of src/app.py with its    *)
(* session store (src/utils/chat_history.py), capability clients           *)
(* (src/services/*.py), request schemas (src/models/schemas.py) and        *)
(* validation helpers (src/utils/error_handling.py).                       *)
(*                                                                         *)
(* Texts are TLA+ strings.  Python's None is the value None below, which   *)
(* no text drawn by the model equals.  Timestamps (ChatMessage.timestamp,  *)
(* created_at, last_activity) are not modelled: no operation reads them.   *)
(* Request threads of the (threaded) Flask server are the processes Procs; *)
(* a thread switch can occur between any two accesses to the shared        *)
(* sessions dictionary, so store operations are split at those accesses.   *)
(***************************************************************************)
EXTENDS Integers, Sequences, FiniteSets, TLC

\* ------------------------------------------------------------------ bounds
NumProcs == 2       \* concurrent request threads
MaxOps == 2         \* operations started in one behaviour of the request handlers
MaxStoreOps == 3    \* operations started in one behaviour of the store alone
MaxLimit == 3       \* largest limit passed to get_recent_messages by a direct caller
MaxHistory == 11    \* longest history handed to generate_response by a direct caller

\* -------------------------------------------------------- program constants
LLM_MAX_LENGTH == 10000
TTS_MAX_LENGTH == 5000
RECENT_LIMIT == 10
PREVIEW_LENGTH == 50
CONTEXT_MESSAGES == 10
MAX_AUDIO_BYTES == 16 * 1024 * 1024

None == "<None>"

\* ------------------------------------------------------------ text helpers
CharAt(s, i) == SubSeq(s, i, i)

Whitespace == {" "}

IsBlank(s) == \A i \in 1..Len(s) : CharAt(s, i) \in Whitespace

\* str.strip(): the text between its first and its last non-blank character
\* (last is found by its distance k from the end)
Strip(s) ==
    IF IsBlank(s) THEN ""
    ELSE LET n == Len(s)
             first == CHOOSE i \in 1..n :
                         /\ CharAt(s, i) \notin Whitespace
                         /\ \A j \in 1..(i - 1) : CharAt(s, j) \in Whitespace
             k     == CHOOSE i \in 1..n :
                         /\ CharAt(s, n + 1 - i) \notin Whitespace
                         /\ \A j \in (n + 2 - i)..n : CharAt(s, j) \in Whitespace
         IN  SubSeq(s, first, n + 1 - k)

UpperToLower ==
    [c \in {"A","B","C","D","E","F","G","H","I","J","K","L","M",
            "N","O","P","Q","R","S","T","U","V","W","X","Y","Z"} |->
       CASE c = "A" -> "a" [] c = "B" -> "b" [] c = "C" -> "c" [] c = "D" -> "d"
         [] c = "E" -> "e" [] c = "F" -> "f" [] c = "G" -> "g" [] c = "H" -> "h"
         [] c = "I" -> "i" [] c = "J" -> "j" [] c = "K" -> "k" [] c = "L" -> "l"
         [] c = "M" -> "m" [] c = "N" -> "n" [] c = "O" -> "o" [] c = "P" -> "p"
         [] c = "Q" -> "q" [] c = "R" -> "r" [] c = "S" -> "s" [] c = "T" -> "t"
         [] c = "U" -> "u" [] c = "V" -> "v" [] c = "W" -> "w" [] c = "X" -> "x"
         [] c = "Y" -> "y" [] c = "Z" -> "z"]

LowerChar(c) == IF c \in DOMAIN UpperToLower THEN UpperToLower[c] ELSE c

RECURSIVE Lower(_)
\* str.lower()
Lower(s) ==
    IF Len(s) = 0 THEN ""
    ELSE IF Len(s) = 1 THEN LowerChar(s)
    ELSE LET m == Len(s) \div 2
         IN  Lower(SubSeq(s, 1, m)) \o Lower(SubSeq(s, m + 1, Len(s)))

\* Python's  w in s  on strings
Contains(s, w) ==
    \E i \in 1..(Len(s) - Len(w) + 1) : SubSeq(s, i, i + Len(w) - 1) = w

\* Python's  s[:n]
Prefix(s, n) == IF Len(s) > n THEN SubSeq(s, 1, n) ELSE s

\* Python's  not s  for an Optional[str]
Falsy(s) == s = None \/ s = ""

RECURSIVE Rep(_, _)
Rep(s, n) ==
    IF n = 0 THEN ""
    ELSE LET h == Rep(s, n \div 2)
         IN  IF n % 2 = 0 THEN h \o h ELSE h \o h \o s

\* the printable ASCII characters but the grave accent: those of the codes
\* 32 (the space) to 95, and those of the codes 97 to 126
AsciiLow == " !\"#$%&'()*+,-./0123456789:;<=>?@ABCDEFGHIJKLMNOPQRSTUVWXYZ[\\]^_"

AsciiHigh == "abcdefghijklmnopqrstuvwxyz{|}~"

AsciiCode ==
    [c \in {CharAt(AsciiLow, k) : k \in 1..Len(AsciiLow)} |->
        31 + CHOOSE k \in 1..Len(AsciiLow) : CharAt(AsciiLow, k) = c]
    @@ [c \in {CharAt(AsciiHigh, k) : k \in 1..Len(AsciiHigh)} |->
        96 + CHOOSE k \in 1..Len(AsciiHigh) : CharAt(AsciiHigh, k) = c]

\* byte i of str.encode('utf-8') of a text of ASCII characters: one byte per
\* character
Utf8Byte(text, i) == AsciiCode[CharAt(text, i)]

B64Alphabet == "ABCDEFGHIJKLMNOPQRSTUVWXYZabcdefghijklmnopqrstuvwxyz0123456789+/"

B64Chars == [k \in 1..Len(B64Alphabet) |-> CharAt(B64Alphabet, k)]

\* the four characters base64 writes for the three bytes from byte i on,
\* padded with "=" when fewer than three bytes are left
B64Group(text, i) ==
    LET left == Len(text) - i + 1
        b1 == Utf8Byte(text, i)
        b2 == IF left >= 2 THEN Utf8Byte(text, i + 1) ELSE 0
        b3 == IF left >= 3 THEN Utf8Byte(text, i + 2) ELSE 0
    IN  B64Chars[(b1 \div 4) + 1]
          \o B64Chars[((b1 % 4) * 16 + (b2 \div 16)) + 1]
          \o (IF left >= 2 THEN B64Chars[((b2 % 16) * 4 + (b3 \div 64)) + 1] ELSE "=")
          \o (IF left >= 3 THEN B64Chars[(b3 % 64) + 1] ELSE "=")

\* the groups lo..hi of the encoding, one after the other
RECURSIVE B64Groups(_, _, _)
B64Groups(text, lo, hi) ==
    IF lo > hi THEN ""
    ELSE IF lo = hi THEN B64Group(text, 3 * lo - 2)
    ELSE LET mid == (lo + hi) \div 2
         IN  B64Groups(text, lo, mid) \o B64Groups(text, mid + 1, hi)

\* base64.b64encode(text.encode('utf-8')).decode('utf-8')
B64EncodeUtf8(text) == B64Groups(text, 1, (Len(text) + 2) \div 3)


\* -------------------------------------------------- src/models/schemas.py
ErrorTypes == {"stt_error", "llm_error", "tts_error", "api_error", "network_error",
               "timeout_error", "general_error", "config_error", "input_error"}

MessageRoles == {"user", "assistant", "system"}

ChatMessage(role, content) == [role |-> role, content |-> content]

\* Field(min_length=1, max_length=...) and the text_must_not_be_empty validator:
\* TRUE when constructing the request raises a ValidationError.
TextFieldRaises(text, max_length) ==
    \/ Len(text) < 1
    \/ Len(text) > max_length
    \/ Strip(text) = ""

LLMRequestRaises(text) == TextFieldRaises(text, LLM_MAX_LENGTH)

LLMRequest(text, session_id) ==
    [text |-> Strip(text), session_id |-> session_id,
     model |-> "gemini-1.5-flash", include_history |-> TRUE]

TTSRequestRaises(text) == TextFieldRaises(text, TTS_MAX_LENGTH)

TTSRequest(text) ==
    [text |-> Strip(text), voice_id |-> "en-US-AriaNeural", speed |-> 95, pitch |-> 45]

ValidationErrorText == "1 validation error"

ErrorResponse(error_message, error_type, status) ==
    [kind |-> "error", http |-> status, success |-> FALSE,
     error |-> error_message, error_type |-> error_type]

\* ----------------------------------------- src/utils/error_handling.py
\* validate_text_input: the error message, or None when the text is accepted
ValidateTextInput(text, max_length) ==
    IF Falsy(text) THEN "Text cannot be empty"
    ELSE IF Strip(text) = "" THEN "Text cannot be empty or whitespace only"
    ELSE IF Len(Strip(text)) > max_length THEN "Text too long (max " \o ToString(max_length) \o " characters)"
    ELSE None

\* filename.rsplit('.', 1)[-1]
LastSegment(name) ==
    IF \E i \in 1..Len(name) : CharAt(name, i) = "."
    THEN LET d == CHOOSE i \in 1..Len(name) :
                     /\ CharAt(name, i) = "."
                     /\ \A j \in (i + 1)..Len(name) : CharAt(name, j) # "."
         IN  SubSeq(name, d + 1, Len(name))
    ELSE name

AllowedExtensions == {".webm", ".wav", ".mp3", ".m4a", ".ogg"}

\* validate_audio_file without its check of the extension
ValidateAudioFileAnyExtension(file) ==
    IF Falsy(file.filename) THEN "No audio file provided"
    ELSE IF file.content_length # 0 /\ file.content_length > MAX_AUDIO_BYTES
         THEN "File too large (max 16MB)"
    ELSE None

\* validate_audio_file refusing the size of the limit itself
ValidateAudioFileSizeInclusive(file) ==
    IF Falsy(file.filename) THEN "No audio file provided"
    ELSE IF file.content_length # 0 /\ file.content_length >= MAX_AUDIO_BYTES
         THEN "File too large (max 16MB)"
    ELSE IF ("." \o Lower(LastSegment(file.filename))) \notin AllowedExtensions
         THEN "Unsupported file format. Allowed: .webm, .wav, .mp3, .m4a, .ogg"
    ELSE None

\* validate_audio_file: the error message, or None when the file is accepted.
\* A FileStorage is falsy when its filename is empty; content_length is 0
\* when the part declares none.  (The order in which the message lists the
\* allowed extensions is that of a Python set; one order is written here.)
ValidateAudioFile(file) ==
    IF Falsy(file.filename) THEN "No audio file provided"
    ELSE IF file.content_length # 0 /\ file.content_length > MAX_AUDIO_BYTES
         THEN "File too large (max 16MB)"
    ELSE IF ("." \o Lower(LastSegment(file.filename))) \notin AllowedExtensions
         THEN "Unsupported file format. Allowed: .webm, .wav, .mp3, .m4a, .ogg"
    ELSE None

\* -------------------------------------------------- src/services/llm.py
GreetingWords == {"hello", "hi", "hey", "good morning", "good afternoon"}
WellBeingWords == {"how are you", "how do you do"}
GratitudeWords == {"thank", "thanks"}
FarewellWords == {"bye", "goodbye", "see you", "farewell"}
HelpWords == {"help", "support", "assist"}
QuestionWords == {"what", "how", "why", "when", "where", "who"}

AnyWordIn(words, s) == \E w \in words : Contains(s, w)

\* a _generate_contextual_fallback that looks for a question word first
GenerateContextualFallbackQuestionFirst(user_text) ==
    IF Falsy(user_text)
    THEN "I didn't catch that. Could you please repeat your message?"
    ELSE LET user_lower == Lower(user_text) IN
      IF AnyWordIn(QuestionWords, user_lower)
      THEN "That's a great question! Unfortunately, I'm having trouble accessing my full knowledge base right now, but please try asking again in a moment."
      ELSE IF AnyWordIn(GreetingWords, user_lower)
      THEN "Hello! I'm having some technical difficulties with my AI brain, but I'm here to help as best I can."
      ELSE IF AnyWordIn(WellBeingWords, user_lower)
      THEN "I'm experiencing some technical issues right now, but thank you for asking! How can I help you?"
      ELSE IF AnyWordIn(GratitudeWords, user_lower)
      THEN "You're very welcome! Though I should mention I'm having some connectivity issues at the moment."
      ELSE IF AnyWordIn(FarewellWords, user_lower)
      THEN "Goodbye! Sorry for any technical difficulties during our conversation. Hope to chat again soon!"
      ELSE IF AnyWordIn(HelpWords, user_lower)
      THEN "I'd love to help you! I'm currently experiencing some technical difficulties, but I'll do my best to assist."
      ELSE LET preview == IF Len(user_text) > PREVIEW_LENGTH
                          THEN Prefix(user_text, PREVIEW_LENGTH) \o "..."
                          ELSE user_text
           IN  "I heard you mention something about '" \o preview
                 \o "'. I'm experiencing some technical difficulties, but I'm trying to help as best I can."

\* a _generate_contextual_fallback that cuts a text of 50 characters already
GenerateContextualFallbackCutsAtLimit(user_text) ==
    IF Falsy(user_text)
    THEN "I didn't catch that. Could you please repeat your message?"
    ELSE LET user_lower == Lower(user_text) IN
      IF AnyWordIn(GreetingWords, user_lower)
      THEN "Hello! I'm having some technical difficulties with my AI brain, but I'm here to help as best I can."
      ELSE IF AnyWordIn(WellBeingWords, user_lower)
      THEN "I'm experiencing some technical issues right now, but thank you for asking! How can I help you?"
      ELSE IF AnyWordIn(GratitudeWords, user_lower)
      THEN "You're very welcome! Though I should mention I'm having some connectivity issues at the moment."
      ELSE IF AnyWordIn(FarewellWords, user_lower)
      THEN "Goodbye! Sorry for any technical difficulties during our conversation. Hope to chat again soon!"
      ELSE IF AnyWordIn(HelpWords, user_lower)
      THEN "I'd love to help you! I'm currently experiencing some technical difficulties, but I'll do my best to assist."
      ELSE IF AnyWordIn(QuestionWords, user_lower)
      THEN "That's a great question! Unfortunately, I'm having trouble accessing my full knowledge base right now, but please try asking again in a moment."
      ELSE LET preview == IF Len(user_text) >= PREVIEW_LENGTH
                          THEN Prefix(user_text, PREVIEW_LENGTH) \o "..."
                          ELSE user_text
           IN  "I heard you mention something about '" \o preview
                 \o "'. I'm experiencing some technical difficulties, but I'm trying to help as best I can."

\* _generate_contextual_fallback
GenerateContextualFallback(user_text) ==
    IF Falsy(user_text)
    THEN "I didn't catch that. Could you please repeat your message?"
    ELSE LET user_lower == Lower(user_text) IN
      IF AnyWordIn(GreetingWords, user_lower)
      THEN "Hello! I'm having some technical difficulties with my AI brain, but I'm here to help as best I can."
      ELSE IF AnyWordIn(WellBeingWords, user_lower)
      THEN "I'm experiencing some technical issues right now, but thank you for asking! How can I help you?"
      ELSE IF AnyWordIn(GratitudeWords, user_lower)
      THEN "You're very welcome! Though I should mention I'm having some connectivity issues at the moment."
      ELSE IF AnyWordIn(FarewellWords, user_lower)
      THEN "Goodbye! Sorry for any technical difficulties during our conversation. Hope to chat again soon!"
      ELSE IF AnyWordIn(HelpWords, user_lower)
      THEN "I'd love to help you! I'm currently experiencing some technical difficulties, but I'll do my best to assist."
      ELSE IF AnyWordIn(QuestionWords, user_lower)
      THEN "That's a great question! Unfortunately, I'm having trouble accessing my full knowledge base right now, but please try asking again in a moment."
      ELSE LET preview == IF Len(user_text) > PREVIEW_LENGTH
                          THEN Prefix(user_text, PREVIEW_LENGTH) \o "..."
                          ELSE user_text
           IN  "I heard you mention something about '" \o preview
                 \o "'. I'm experiencing some technical difficulties, but I'm trying to help as best I can."


\* Outcomes of the Gemini call  self.client.generate_content(context):
\* it raises (transport error, timeout, blocked reply), or returns a text.
LongReply == Rep("y", TTS_MAX_LENGTH + 1)

LlmOutcomes ==
    {[kind |-> "raises", text |-> "503 service unavailable"]}
      \cup {[kind |-> "text", text |-> t] : t \in {"", " ", " Sure. ", LongReply}}

NotCalled == [kind |-> "not_called", text |-> None]

\* _setup_client: no client without a key, or with the sample key
LlmClient(cfg) ==
    IF cfg.GEMINI_API_KEY = "" \/ cfg.GEMINI_API_KEY = "your_gemini_api_key_here"
    THEN None ELSE "client"

LlmIsAvailable(cfg) == LlmClient(cfg) # None /\ cfg.GEMINI_API_KEY # None

\* what the Gemini call can do: it is not made by an unavailable service
LlmRemote(cfg) == IF LlmIsAvailable(cfg) THEN LlmOutcomes ELSE {NotCalled}

\* _generate_llm_response: [raised, value], value the stripped reply or the
\* text of the exception
GenerateLlmResponse(outcome) ==
    IF outcome.kind = "raises" THEN [raised |-> TRUE, value |-> outcome.text]
    ELSE IF Falsy(outcome.text)
         THEN [raised |-> TRUE, value |-> "Empty response from LLM"]
    ELSE [raised |-> FALSE, value |-> Strip(outcome.text)]

\* the remote requests one generate_response issues: one generate_content
LlmRequests(cfg) == IF LlmIsAvailable(cfg) THEN <<"gemini">> ELSE <<>>

\* "\n".join(parts)
RECURSIVE JoinLines(_)
JoinLines(parts) ==
    IF parts = <<>> THEN ""
    ELSE IF Len(parts) = 1 THEN parts[1]
    ELSE parts[1] \o "\n" \o JoinLines(Tail(parts))

SystemPrompt ==
    "You are a helpful AI voice assistant. Provide clear, concise, and helpful responses. "
      \o "Keep your responses conversational and engaging, suitable for voice interaction."

\* role = "User" if message.role == MessageRole.USER else "Assistant"
RoleLabel(message) == IF message.role = "user" THEN "User" ELSE "Assistant"

\* chat_history[-10:] of _prepare_context
ContextMessages(chat_history) ==
    IF Len(chat_history) <= CONTEXT_MESSAGES THEN chat_history
    ELSE SubSeq(chat_history, Len(chat_history) - CONTEXT_MESSAGES + 1, Len(chat_history))

\* _prepare_context with every message of the history it is handed
ContextPartsWholeHistory(request, chat_history) ==
    <<"System: " \o SystemPrompt>>
      \o (IF request.include_history /\ chat_history # <<>>
          THEN <<"\nConversation History:">>
                 \o [i \in 1..Len(chat_history) |->
                       RoleLabel(chat_history[i]) \o ": " \o chat_history[i].content]
          ELSE <<>>)
      \o <<"\nUser: " \o request.text, "Assistant:">>

\* context_parts of _prepare_context when it returns; chat_history is <<>>
\* also when the caller passes none (None and [] are both false in the test)
ContextParts(request, chat_history) ==
    <<"System: " \o SystemPrompt>>
      \o (IF request.include_history /\ chat_history # <<>>
          THEN LET recent == ContextMessages(chat_history) IN
               <<"\nConversation History:">>
                 \o [i \in 1..Len(recent) |->
                       RoleLabel(recent[i]) \o ": " \o recent[i].content]
          ELSE <<>>)
      \o <<"\nUser: " \o request.text, "Assistant:">>

\* _prepare_context: the prompt handed to generate_content
PrepareContext(request, chat_history) == JoinLines(ContextParts(request, chat_history))

\* the parts of the prompt generate_response sends: an unavailable service
\* returns before it prepares one
ContextSent(cfg, request, chat_history) ==
    IF LlmIsAvailable(cfg) THEN ContextParts(request, chat_history) ELSE <<>>

\* generate_response without the contextual fallback in its failure results
GenerateResponseNoFallback(cfg, request, outcome) ==
    IF ~LlmIsAvailable(cfg)
    THEN [kind |-> "llm", http |-> 200, success |-> FALSE, response |-> None,
          query |-> request.text, model |-> None, session_id |-> request.session_id,
          error |-> "LLM service not available - API key not configured",
          error_type |-> "config_error", fallback_response |-> None]
    ELSE LET r == GenerateLlmResponse(outcome) IN
         IF r.raised
         THEN [kind |-> "llm", http |-> 200, success |-> FALSE, response |-> None,
               query |-> request.text, model |-> None, session_id |-> request.session_id,
               error |-> "LLM generation failed: " \o r.value,
               error_type |-> "llm_error", fallback_response |-> None]
         ELSE [kind |-> "llm", http |-> 200, success |-> TRUE, response |-> r.value,
               query |-> request.text, model |-> "gemini-1.5-flash",
               session_id |-> request.session_id,
               error |-> None, error_type |-> None, fallback_response |-> None]

\* generate_response
GenerateResponse(cfg, request, outcome) ==
    IF ~LlmIsAvailable(cfg)
    THEN [kind |-> "llm", http |-> 200, success |-> FALSE, response |-> None,
          query |-> request.text, model |-> None, session_id |-> request.session_id,
          error |-> "LLM service not available - API key not configured",
          error_type |-> "config_error",
          fallback_response |-> GenerateContextualFallback(request.text)]
    ELSE LET r == GenerateLlmResponse(outcome) IN
         IF r.raised
         THEN [kind |-> "llm", http |-> 200, success |-> FALSE, response |-> None,
               query |-> request.text, model |-> None, session_id |-> request.session_id,
               error |-> "LLM generation failed: " \o r.value,
               error_type |-> "llm_error",
               fallback_response |-> GenerateContextualFallback(request.text)]
         ELSE [kind |-> "llm", http |-> 200, success |-> TRUE, response |-> r.value,
               query |-> request.text, model |-> "gemini-1.5-flash",
               session_id |-> request.session_id,
               error |-> None, error_type |-> None, fallback_response |-> None]

\* -------------------------------------------------- src/services/stt.py
LongUtterance == Rep("x", LLM_MAX_LENGTH + 1)

\* Outcomes of one transcription: mkstemp raises, saving the upload into the
\* file raises, the AssemblyAI call raises, or it returns a transcript (status,
\* text, confidence).
SttOutcomes ==
    {[kind |-> "mkstemp_raises", text |-> "No usable temporary directory found",
      confidence |-> None],
     [kind |-> "save_raises", text |-> "No space left on device", confidence |-> None],
     [kind |-> "raises", text |-> "Connection timed out", confidence |-> None],
     [kind |-> "error", text |-> "Audio file is corrupt", confidence |-> None]}
      \cup {[kind |-> "completed", text |-> t, confidence |-> "0.93"] :
               t \in {None, " ", " hi there ", LongUtterance}}

SttClient(cfg) ==
    IF cfg.ASSEMBLYAI_API_KEY = "" \/ cfg.ASSEMBLYAI_API_KEY = "your_assemblyai_api_key_here"
    THEN None ELSE "client"

SttIsAvailable(cfg) == SttClient(cfg) # None /\ cfg.ASSEMBLYAI_API_KEY # None

SttRemote(cfg) == IF SttIsAvailable(cfg) THEN SttOutcomes ELSE {NotCalled}

TranscriptionResponse(success, transcription, confidence, error, error_type) ==
    [success |-> success, transcription |-> transcription, confidence |-> confidence,
     language |-> IF success THEN "en" ELSE None,
     error |-> error, error_type |-> error_type]

\* _perform_transcription testing only  not transcription_text
PerformTranscriptionNoBlankCheck(outcome) ==
    IF outcome.kind = "raises"
    THEN TranscriptionResponse(FALSE, None, None,
            "Transcription processing failed: " \o outcome.text, "stt_error")
    ELSE IF outcome.kind = "error"
    THEN TranscriptionResponse(FALSE, None, None,
            "Transcription service error: " \o outcome.text, "stt_error")
    ELSE IF Falsy(outcome.text)
    THEN TranscriptionResponse(FALSE, None, None, "No speech detected in audio", "stt_error")
    ELSE TranscriptionResponse(TRUE, Strip(outcome.text), outcome.confidence, None, None)

\* a _perform_transcription that returns the recognised text as it came
PerformTranscriptionUntrimmed(outcome) ==
    IF outcome.kind = "raises"
    THEN TranscriptionResponse(FALSE, None, None,
            "Transcription processing failed: " \o outcome.text, "stt_error")
    ELSE IF outcome.kind = "error"
    THEN TranscriptionResponse(FALSE, None, None,
            "Transcription service error: " \o outcome.text, "stt_error")
    ELSE IF Falsy(outcome.text) \/ Strip(outcome.text) = ""
    THEN TranscriptionResponse(FALSE, None, None, "No speech detected in audio", "stt_error")
    ELSE TranscriptionResponse(TRUE, outcome.text, outcome.confidence, None, None)

\* _perform_transcription
PerformTranscription(outcome) ==
    IF outcome.kind = "raises"
    THEN TranscriptionResponse(FALSE, None, None,
            "Transcription processing failed: " \o outcome.text, "stt_error")
    ELSE IF outcome.kind = "error"
    THEN TranscriptionResponse(FALSE, None, None,
            "Transcription service error: " \o outcome.text, "stt_error")
    ELSE IF Falsy(outcome.text) \/ Strip(outcome.text) = ""
    THEN TranscriptionResponse(FALSE, None, None, "No speech detected in audio", "stt_error")
    ELSE TranscriptionResponse(TRUE, Strip(outcome.text), outcome.confidence, None, None)

\* transcribe_audio
TranscribeAudio(cfg, outcome) ==
    IF ~SttIsAvailable(cfg)
    THEN TranscriptionResponse(FALSE, None, None,
            "STT service not available - API key not configured", "config_error")
    ELSE IF outcome.kind \in {"mkstemp_raises", "save_raises"}
    THEN TranscriptionResponse(FALSE, None, None,
            "Transcription failed: " \o outcome.text, "stt_error")
    ELSE PerformTranscription(outcome)

\* the remote requests one transcribe_audio issues: one transcriber.transcribe
\* when the service is available and the upload was saved
SttRequests(cfg, outcome) ==
    IF SttIsAvailable(cfg) /\ outcome.kind \notin {"mkstemp_raises", "save_raises"}
    THEN <<"assemblyai">> ELSE <<>>

\* tempfile.mkstemp: the path of a new file, one that does not exist. Files
\* are named in the order of their creation.
Mkstemp(files) == "/tmp/tmp" \o ToString(Cardinality(files) + 1) \o ".webm"

\* _save_temp_file on the existing files: the path it returns or None when it
\* raises, the file it created, and the files that exist afterwards. When
\* audio_file.save raises, the with statement has closed the descriptor, so
\* os.close(temp_fd) raises in the handler and os.unlink is not reached.
SaveTempFile(files, outcome) ==
    IF outcome.kind = "mkstemp_raises"
    THEN [path |-> None, created |-> None, files |-> files]
    ELSE LET temp_file_path == Mkstemp(files) IN
         IF outcome.kind = "save_raises"
         THEN [path |-> None, created |-> temp_file_path,
               files |-> files \cup {temp_file_path}]
         ELSE [path |-> temp_file_path, created |-> temp_file_path,
               files |-> files \cup {temp_file_path}]

\* transcribe_audio on the existing files: the file it created (None when it
\* created none) and the files that exist when it returns. The finally clause
\* unlinks temp_file_path when it is set and the file exists.
TranscribeAudioFiles(cfg, files, outcome) ==
    IF ~SttIsAvailable(cfg)
    THEN [created |-> None, files |-> files]
    ELSE LET saved == SaveTempFile(files, outcome) IN
         [created |-> saved.created,
          files |-> IF saved.path # None /\ saved.path \in saved.files
                    THEN saved.files \ {saved.path} ELSE saved.files]

\* -------------------------------------------------- src/services/tts.py
\* Outcomes of  requests.post(...)  and of reading its reply
TtsOutcomes ==
    {[kind |-> "timeout", text |-> "Read timed out", status |-> 0],
     [kind |-> "request_exception", text |-> "Connection refused", status |-> 0],
     [kind |-> "exception", text |-> "'list' object has no attribute 'get'", status |-> 200],
     [kind |-> "status", text |-> "", status |-> 500],
     [kind |-> "bad_json", text |-> "", status |-> 200],
     [kind |-> "no_audio", text |-> "", status |-> 200],
     [kind |-> "audio", text |-> "https://murf.ai/audio/1.mp3", status |-> 200]}

TtsIsAvailable(cfg) ==
    /\ cfg.MURF_API_KEY # None
    /\ cfg.MURF_API_KEY # "your_murf_api_key_here"
    /\ cfg.MURF_API_URL # None
    /\ cfg.MURF_API_URL # "your_murf_api_url_here"

\* requests.post on a URL without a scheme raises MissingSchema, a
\* RequestException, before anything is sent
MissingSchema ==
    [kind |-> "request_exception", text |-> "Invalid URL '': No scheme supplied",
     status |-> 0]

\* what requests.post can do: it is not called by an unavailable service
TtsRemote(cfg) ==
    IF ~TtsIsAvailable(cfg) THEN {NotCalled}
    ELSE IF cfg.MURF_API_URL = "" THEN {MissingSchema}
    ELSE TtsOutcomes

\* _generate_emergency_fallback: a data URL of the base64 of the UTF-8 bytes
GenerateEmergencyFallback(text) == "data:text/plain;base64," \o B64EncodeUtf8(text)

TTSResponse(success, audio_url, error, error_type, emergency_fallback) ==
    [success |-> success, audio_url |-> audio_url, error |-> error,
     error_type |-> error_type, emergency_fallback |-> emergency_fallback]

\* a _process_murf_response that does not test the audio URL of the reply
ProcessMurfResponseTrusting(outcome, original_text) ==
    IF outcome.status # 200
    THEN TTSResponse(FALSE, None,
            "TTS API returned status " \o ToString(outcome.status), "api_error",
            GenerateEmergencyFallback(original_text))
    ELSE IF outcome.kind = "bad_json"
    THEN TTSResponse(FALSE, None, "Invalid response format from TTS service", "api_error",
            GenerateEmergencyFallback(original_text))
    ELSE TTSResponse(TRUE, IF outcome.kind = "no_audio" THEN None ELSE outcome.text,
                     None, None, None)

\* _process_murf_response
ProcessMurfResponse(outcome, original_text) ==
    IF outcome.status # 200
    THEN TTSResponse(FALSE, None,
            "TTS API returned status " \o ToString(outcome.status), "api_error",
            GenerateEmergencyFallback(original_text))
    ELSE IF outcome.kind = "bad_json"
    THEN TTSResponse(FALSE, None, "Invalid response format from TTS service", "api_error",
            GenerateEmergencyFallback(original_text))
    ELSE IF outcome.kind = "no_audio" \/ Falsy(outcome.text)
    THEN TTSResponse(FALSE, None, "No audio URL returned from TTS service", "tts_error",
            GenerateEmergencyFallback(original_text))
    ELSE TTSResponse(TRUE, outcome.text, None, None, None)

\* a synthesize_speech whose timeout result carries no emergency fallback
SynthesizeSpeechBareTimeout(cfg, request, outcome) ==
    IF ~TtsIsAvailable(cfg)
    THEN TTSResponse(FALSE, None,
            "TTS service not available - API keys not configured", "config_error",
            GenerateEmergencyFallback(request.text))
    ELSE IF outcome.kind = "timeout"
    THEN TTSResponse(FALSE, None, "TTS request timed out", "timeout_error", None)
    ELSE IF outcome.kind = "request_exception"
    THEN TTSResponse(FALSE, None, "TTS API request failed: " \o outcome.text, "network_error",
            GenerateEmergencyFallback(request.text))
    ELSE IF outcome.kind = "exception"
    THEN TTSResponse(FALSE, None, "TTS synthesis failed: " \o outcome.text, "tts_error",
            GenerateEmergencyFallback(request.text))
    ELSE ProcessMurfResponse(outcome, request.text)

\* synthesize_speech
SynthesizeSpeech(cfg, request, outcome) ==
    IF ~TtsIsAvailable(cfg)
    THEN TTSResponse(FALSE, None,
            "TTS service not available - API keys not configured", "config_error",
            GenerateEmergencyFallback(request.text))
    ELSE IF outcome.kind = "timeout"
    THEN TTSResponse(FALSE, None, "TTS request timed out", "timeout_error",
            GenerateEmergencyFallback(request.text))
    ELSE IF outcome.kind = "request_exception"
    THEN TTSResponse(FALSE, None, "TTS API request failed: " \o outcome.text, "network_error",
            GenerateEmergencyFallback(request.text))
    ELSE IF outcome.kind = "exception"
    THEN TTSResponse(FALSE, None, "TTS synthesis failed: " \o outcome.text, "tts_error",
            GenerateEmergencyFallback(request.text))
    ELSE ProcessMurfResponse(outcome, request.text)

\* a synthesize_speech that posts once more after a timeout
TtsRequestsRetrying(cfg, outcome) ==
    IF ~TtsIsAvailable(cfg) \/ cfg.MURF_API_URL = "" THEN <<>>
    ELSE IF outcome.kind = "timeout" THEN <<"murf", "murf">>
    ELSE <<"murf">>

\* the remote requests one synthesize_speech issues: one requests.post, which
\* sends nothing when the URL has no scheme
TtsRequests(cfg, outcome) ==
    IF TtsIsAvailable(cfg) /\ cfg.MURF_API_URL # "" THEN <<"murf">> ELSE <<>>

\* ------------------------------------------------ src/config/settings.py
\* The environment the process was started with: each key is unset (""),
\* still the sample value of the template, or set.
Configs ==
    {[ASSEMBLYAI_API_KEY |-> "aai-key", GEMINI_API_KEY |-> "gem-key",
      MURF_API_KEY |-> "murf-key", MURF_API_URL |-> "https://api.murf.ai/v1/speech"],
     [ASSEMBLYAI_API_KEY |-> "aai-key", GEMINI_API_KEY |-> "your_gemini_api_key_here",
      MURF_API_KEY |-> "your_murf_api_key_here", MURF_API_URL |-> "https://api.murf.ai/v1/speech"],
     [ASSEMBLYAI_API_KEY |-> "", GEMINI_API_KEY |-> "",
      MURF_API_KEY |-> "", MURF_API_URL |-> ""]}

\* Every environment: each of the four keys unset, the sample value, or set
Environments ==
    [ASSEMBLYAI_API_KEY : {"", "your_assemblyai_api_key_here", "aai-key"},
     GEMINI_API_KEY : {"", "your_gemini_api_key_here", "gem-key"},
     MURF_API_KEY : {"", "your_murf_api_key_here", "murf-key"},
     MURF_API_URL : {"", "your_murf_api_url_here", "https://api.murf.ai/v1/speech"}]

\* validate_api_keys
ValidateApiKeys(cfg) ==
    [assemblyai |-> ~Falsy(cfg.ASSEMBLYAI_API_KEY)
                      /\ cfg.ASSEMBLYAI_API_KEY # "your_assemblyai_api_key_here",
     gemini |-> ~Falsy(cfg.GEMINI_API_KEY) /\ cfg.GEMINI_API_KEY # "your_gemini_api_key_here",
     murf |-> ~Falsy(cfg.MURF_API_KEY) /\ cfg.MURF_API_KEY # "your_murf_api_key_here",
     murf_url |-> ~Falsy(cfg.MURF_API_URL) /\ cfg.MURF_API_URL # "your_murf_api_url_here"]

\* get_missing_keys, as a set
GetMissingKeys(cfg) == {key \in DOMAIN ValidateApiKeys(cfg) : ~ValidateApiKeys(cfg)[key]}


\* ------------------------------------------------------------------- state
VARIABLES
    config,      \* the settings loaded at start-up (never written afterwards)
    sessions,    \* ChatHistoryManager.sessions: key -> reference of a session object
    heap,        \* the ChatSessionInfo objects ever created, by reference
    nextUuid,    \* number of the next value uuid.uuid4() returns
    opsStarted,  \* operations started so far
    pc,          \* per thread: where it stands in its operation
    loc,         \* per thread: the locals of its operation
    resp,        \* per thread: what its last operation returned
    calls,       \* per thread: capability calls and appends of its operation, in order
    mutated,     \* per thread: its operation has written to the session store
    tempFiles    \* the files that exist in the directory of temporary files

vars == <<config, sessions, heap, nextUuid, opsStarted, pc, loc, resp, calls, mutated,
          tempFiles>>

Procs == 1..NumProcs

Uuid(n) == "uuid-" \o ToString(n)

\* session ids a caller can make up, never returned by uuid4
ForeignIds == {"my-session"}

\* ------------------------------------------- src/utils/chat_history.py
NewSession(session_id) ==
    [session_id |-> session_id, message_count |-> 0, messages |-> <<>>]

\* get_chat_history: the message list of the session, [] for an unknown id
GetChatHistory(session_id) ==
    IF session_id \in DOMAIN sessions THEN heap[sessions[session_id]].messages ELSE <<>>

\* get_chat_history returns session.messages, the list object the session
\* holds, and a new empty list for an unknown id: the session whose list is
\* returned, None for a new list
HistoryRef(session_id) ==
    IF session_id \in DOMAIN sessions THEN sessions[session_id] ELSE None

\* messages[-limit:]
LastN(messages, limit) ==
    IF limit = 0 \/ Len(messages) <= limit THEN messages
    ELSE SubSeq(messages, Len(messages) - limit + 1, Len(messages))

\* get_recent_messages
GetRecentMessages(session_id, limit) ==
    LET messages == GetChatHistory(session_id)
    IN  IF messages = <<>> THEN <<>> ELSE LastN(messages, limit)

RECURSIVE SumMessageCounts(_)
\* sum(session.message_count for session in self.sessions.values()), over keys
SumMessageCounts(keys) ==
    IF keys = {} THEN 0
    ELSE LET k == CHOOSE x \in keys : TRUE
         IN  heap[sessions[k]].message_count + SumMessageCounts(keys \ {k})

\* a get_session_stats that lists every stored session as active
GetSessionStatsAllActive ==
    [total_sessions |-> Cardinality(DOMAIN sessions),
     total_messages |-> SumMessageCounts(DOMAIN sessions),
     active_sessions |-> DOMAIN sessions]

\* get_session_stats; the list of active session ids is given as their set
GetSessionStats ==
    [total_sessions |-> Cardinality(DOMAIN sessions),
     total_messages |-> SumMessageCounts(DOMAIN sessions),
     active_sessions |-> {sid \in DOMAIN sessions : heap[sessions[sid]].message_count > 0}]

\* ---------------------------------------------------------- src/app.py
VoiceQueryResponse(success, transcription, llm_response, audio_url, confidence, chat_history, session_id, message_count, error, error_type, fallback_used) ==
    [kind |-> "voice", http |-> 200, success |-> success,
     transcription |-> transcription, llm_response |-> llm_response,
     audio_url |-> audio_url, confidence |-> confidence,
     chat_history |-> chat_history, session_id |-> session_id,
     message_count |-> message_count, error |-> error, error_type |-> error_type,
     fallback_used |-> fallback_used]

VoiceFailure(error, error_type, session_id) ==
    VoiceQueryResponse(FALSE, None, None, None, None, None, session_id, None,
                       error, error_type, FALSE)

\* the stages with the generation moved before the append of the user message
PipelineNextGenerateFirst(stage) ==
    CASE stage = "stt" -> "llm"
      [] stage = "llm" -> "append_user"
      [] stage = "append_user" -> "append_assistant"
      [] stage = "append_assistant" -> "tts"
      [] stage = "tts" -> "final"

\* The order of the stages of _process_voice_pipeline
PipelineNext(stage) ==
    CASE stage = "stt" -> "append_user"
      [] stage = "append_user" -> "llm"
      [] stage = "llm" -> "append_assistant"
      [] stage = "append_assistant" -> "tts"
      [] stage = "tts" -> "final"

\* the statement a stage starts with
StagePc(stage) ==
    IF stage \in {"append_user", "append_assistant"} THEN "am_check" ELSE stage

NoFile == [filename |-> None, content_length |-> 0]

\* the operation a thread ran before a read or a clear of the store
NoPrev == [op |-> "none", session_id |-> None]

\* file, stt, known0, hist0 and prev record the inputs of the operation: the
\* upload, the outcome of the transcription, the session of session_id at its
\* start, and the operation the thread returned from before; temp_file is the
\* file mkstemp created for the transcription; llm and tts are the outcomes of
\* the generation and of the synthesis, requests the remote requests issued,
\* context_parts the parts of the prompt sent to the generation
NoLocals ==
    [op |-> "none", stage |-> "none", session_id |-> None,
     file |-> NoFile, stt |-> NotCalled, known0 |-> FALSE,
     transcription |-> None, confidence |-> None,
     text |-> None, llm_success |-> FALSE, response_text |-> None,
     tts_success |-> FALSE, audio_url |-> None,
     am_session_id |-> None, am_role |-> None, am_content |-> None, am_count |-> 0,
     hist0 |-> <<>>, limit |-> 0, prev |-> NoPrev, temp_file |-> None,
     llm |-> NotCalled, tts |-> NotCalled, requests |-> <<>>,
     context_parts |-> <<>>]

NoResponse == [kind |-> "none"]

\* locals on entry to a stage: the append stages call add_message
Enter(l, stage) ==
    IF stage = "append_user"
    THEN [l EXCEPT !.stage = stage, !.am_session_id = l.session_id,
                   !.am_role = "user", !.am_content = l.transcription]
    ELSE IF stage = "append_assistant"
    THEN [l EXCEPT !.stage = stage, !.am_session_id = l.session_id,
                   !.am_role = "assistant", !.am_content = l.response_text]
    ELSE [l EXCEPT !.stage = stage]

\* an exception that leaves the operation, whichever it is
OnExceptionPropagating(l, text) == [kind |-> "raised", error |-> text]

\* What an exception raised in the operation of locals l turns into: the
\* except clause of _process_voice_pipeline, or the exception itself for a
\* direct call of the store.
OnException(l, text) ==
    IF l.op = "voice"
    THEN VoiceFailure("Voice processing failed: " \o text, "general_error", l.session_id)
    ELSE [kind |-> "raised", error |-> text]

Idle(p) == pc[p] \in {"idle", "done"}

\* a request is served by the first free worker thread
CanStart(p) ==
    /\ Idle(p)
    /\ \A q \in Procs : q < p => ~Idle(q)

Init ==
    /\ config \in Configs
    /\ sessions = << >>
    /\ heap = << >>
    /\ nextUuid = 1
    /\ opsStarted = 0
    /\ pc = [p \in Procs |-> "idle"]
    /\ loc = [p \in Procs |-> NoLocals]
    /\ resp = [p \in Procs |-> NoResponse]
    /\ calls = [p \in Procs |-> <<>>]
    /\ mutated = [p \in Procs |-> FALSE]
    /\ tempFiles = {}


\* ------------------------------------------------------------- inputs
AudioFiles ==
    {[filename |-> "Voice.Memo.WAV", content_length |-> MAX_AUDIO_BYTES],
     [filename |-> "setup.exe", content_length |-> 0],
     [filename |-> "", content_length |-> 0],
     [filename |-> "talk.mp3", content_length |-> MAX_AUDIO_BYTES + 1]}

TextInputs ==
    {None, "", "  ", "Hello", " thanks a lot ", "play some jazz", "what is this",
     "How are you today?", "ok, goodbye", "please assist me", "Why not?",
     Rep("z", PREVIEW_LENGTH), Rep("z", PREVIEW_LENGTH + 1),
     "remind me to water the plants in the garden tomorrow at nine",
     " " \o Rep("x", LLM_MAX_LENGTH), LongUtterance}

\* the session_id form field: absent, made up, or the key of a stored session
FormSessionIds == {None} \cup ForeignIds \cup DOMAIN sessions

\* A thread keeps what its operation returned until the next operation
\* starts: the start of an operation by p clears the finished threads.
Cleared(f, p, blank) == [q \in Procs |-> IF q # p /\ pc[q] = "done" THEN blank ELSE f[q]]

Begin(p) ==
    /\ CanStart(p)
    /\ opsStarted' = opsStarted + 1

\* p starts an operation with locals l that is at statement at
Start(p, l, at) ==
    /\ Begin(p)
    /\ loc' = [Cleared(loc, p, NoLocals) EXCEPT ![p] = l]
    /\ pc' = [Cleared(pc, p, "idle") EXCEPT ![p] = at]
    /\ resp' = [Cleared(resp, p, NoResponse) EXCEPT ![p] = NoResponse]
    /\ calls' = [Cleared(calls, p, <<>>) EXCEPT ![p] = <<>>]

\* p runs an operation with locals l that returns response at once
StartDone(p, l, called, response) ==
    /\ Begin(p)
    /\ loc' = [Cleared(loc, p, NoLocals) EXCEPT ![p] = l]
    /\ pc' = [Cleared(pc, p, "idle") EXCEPT ![p] = "done"]
    /\ resp' = [Cleared(resp, p, NoResponse) EXCEPT ![p] = response]
    /\ calls' = [Cleared(calls, p, <<>>) EXCEPT ![p] = called]

Done(p, response) ==
    /\ pc' = [pc EXCEPT ![p] = "done"]
    /\ resp' = [resp EXCEPT ![p] = response]

\* ------------------------------------------------- POST /llm/query, text
\* llm_query -> _handle_text_query, with the outcome of the Gemini call
HandleTextQuery(p) ==
    /\ \E text \in TextInputs :
         LET validation_error == ValidateTextInput(text, LLM_MAX_LENGTH)
             l == [NoLocals EXCEPT !.op = "text", !.text = text] IN
         IF Falsy(text)
         THEN StartDone(p, l, <<>>,
                  ErrorResponse("Missing 'text' field in request", "input_error", 400))
         ELSE IF validation_error # None
         THEN StartDone(p, l, <<>>, ErrorResponse(validation_error, "input_error", 400))
         ELSE IF LLMRequestRaises(text)
         THEN \* the ValidationError reaches the except clause of llm_query
              StartDone(p, l, <<>>,
                  ErrorResponse("LLM processing failed", "general_error", 500))
         ELSE \E outcome \in LlmRemote(config) :
                StartDone(p, [l EXCEPT !.llm = outcome, !.requests = LlmRequests(config),
                                       !.context_parts =
                                           ContextSent(config, LLMRequest(text, None), <<>>)],
                    <<"llm">>,
                    GenerateResponse(config, LLMRequest(text, None), outcome))
    /\ UNCHANGED <<config, tempFiles, sessions, heap, nextUuid>>

\* ------------------------------------------------------ GET /api/health
\* health_check
HealthCheck(p) ==
    /\ StartDone(p, [NoLocals EXCEPT !.op = "health"], <<>>,
          [kind |-> "health", http |-> 200,
           status |-> IF GetMissingKeys(config) = {} THEN "healthy" ELSE "degraded",
           services |-> [stt |-> SttIsAvailable(config), llm |-> LlmIsAvailable(config),
                         tts |-> TtsIsAvailable(config)]])
    /\ UNCHANGED <<config, tempFiles, sessions, heap, nextUuid>>

\* --------------------------------------------------------- POST /api/tts
\* the text field of the JSON body; None stands for a request without a body
TtsTexts == {None, "  ", " Hello there ", "Sure.", "what is this", LongReply}

\* text_to_speech, with the outcome of the Murf call
TextToSpeech(p) ==
    /\ \E text \in TtsTexts :
         LET l == [NoLocals EXCEPT !.op = "tts", !.text = text] IN
         IF text = None
         THEN StartDone(p, l, <<>>, ErrorResponse("Missing request body", "input_error", 400))
         ELSE IF TTSRequestRaises(text)
         THEN StartDone(p, l, <<>>,
                  ErrorResponse("Invalid request data: " \o ValidationErrorText,
                                "input_error", 400))
         ELSE \E outcome \in TtsRemote(config) :
                LET response == SynthesizeSpeech(config, TTSRequest(text), outcome) IN
                StartDone(p, [l EXCEPT !.tts = outcome,
                                       !.requests = TtsRequests(config, outcome)],
                    <<"tts">>,
                    [kind |-> "tts", http |-> IF response.success THEN 200 ELSE 500,
                     result |-> response])
    /\ UNCHANGED <<config, tempFiles, sessions, heap, nextUuid>>

\* --------------------------------------------------- POST /api/transcribe
\* the audio part of the request: NoFile stands for a request without one
UploadedFiles ==
    AudioFiles \cup
    {NoFile,
     [filename |-> "notes", content_length |-> 2048],
     [filename |-> "webm", content_length |-> 2048],
     [filename |-> "clip.tar.OGG", content_length |-> 0],
     [filename |-> "talk.mp3.txt", content_length |-> 2048],
     [filename |-> "song.m4a", content_length |-> MAX_AUDIO_BYTES - 1]}

\* transcribe_audio of the application, with the outcome of the AssemblyAI call
TranscribeAudioRoute(p) ==
    /\ \E file \in UploadedFiles :
         LET validation_error == ValidateAudioFile(file)
             l == [NoLocals EXCEPT !.op = "transcribe", !.file = file] IN
         IF validation_error # None
         THEN /\ StartDone(p, l, <<>>, ErrorResponse(validation_error, "input_error", 400))
              /\ UNCHANGED tempFiles
         ELSE \E outcome \in SttRemote(config) :
                LET response == TranscribeAudio(config, outcome)
                    stt_files == TranscribeAudioFiles(config, tempFiles, outcome) IN
                /\ tempFiles' = stt_files.files
                /\ StartDone(p, [l EXCEPT !.stt = outcome,
                                          !.temp_file = stt_files.created,
                                          !.requests = SttRequests(config, outcome)],
                      <<"stt">>,
                      [kind |-> "stt", http |-> IF response.success THEN 200 ELSE 500,
                       result |-> response])
    /\ UNCHANGED <<config, sessions, heap, nextUuid>>

\* ------------------------------------------------ POST /llm/query, audio
\* llm_query -> _handle_voice_query, up to the call of _process_voice_pipeline
HandleVoiceQuery(p) ==
    /\ \E file \in AudioFiles :
         LET validation_error == ValidateAudioFile(file) IN
         IF validation_error # None
         THEN /\ StartDone(p, [NoLocals EXCEPT !.op = "voice", !.file = file], <<>>,
                     ErrorResponse(validation_error, "input_error", 400))
              /\ UNCHANGED nextUuid
         ELSE \E form_id \in FormSessionIds :
              LET session_id == IF Falsy(form_id) THEN Uuid(nextUuid) ELSE form_id IN
              /\ nextUuid' = IF Falsy(form_id) THEN nextUuid + 1 ELSE nextUuid
              /\ Start(p, [NoLocals EXCEPT !.op = "voice", !.stage = "stt",
                                           !.file = file,
                                           !.session_id = session_id,
                                           !.known0 = session_id \in DOMAIN sessions,
                                           !.hist0 = GetChatHistory(session_id)],
                       "stt")
    /\ UNCHANGED <<config, tempFiles, sessions, heap>>

\* leave the current stage for the one that follows it
Advance(p, l) ==
    LET stage == PipelineNext(l.stage) IN
    /\ loc' = [loc EXCEPT ![p] = Enter(l, stage)]
    /\ pc' = [pc EXCEPT ![p] = StagePc(stage)]
    /\ UNCHANGED resp

\* Step 1: stt_service.transcribe_audio
VoiceStt(p) ==
    /\ pc[p] = "stt"
    /\ calls' = [calls EXCEPT ![p] = Append(@, "stt")]
    /\ \E outcome \in SttRemote(config) :
         LET stt_response == TranscribeAudio(config, outcome)
             stt_files == TranscribeAudioFiles(config, tempFiles, outcome)
         IN
         /\ tempFiles' = stt_files.files
         /\ IF ~stt_response.success
            THEN /\ Done(p, VoiceFailure(stt_response.error, stt_response.error_type,
                                         loc[p].session_id))
                 /\ loc' = [loc EXCEPT ![p].stt = outcome,
                                       ![p].temp_file = stt_files.created,
                                       ![p].requests = @ \o SttRequests(config, outcome)]
            ELSE Advance(p, [loc[p] EXCEPT !.stt = outcome,
                                           !.temp_file = stt_files.created,
                                           !.requests = @ \o SttRequests(config, outcome),
                                           !.transcription = stt_response.transcription,
                                           !.confidence = stt_response.confidence])
    /\ UNCHANGED <<config, sessions, heap, nextUuid, opsStarted>>

\* Step 1 when AssemblyAI never answers: transcriber.transcribe is called
\* without a timeout (STT_TIMEOUT is not passed on), the thread waits in it
\* with the upload saved in its temporary file
VoiceSttBlocks(p) ==
    /\ pc[p] = "stt"
    /\ SttIsAvailable(config)
    /\ LET temp_file_path == Mkstemp(tempFiles) IN
       /\ tempFiles' = tempFiles \cup {temp_file_path}
       /\ loc' = [loc EXCEPT ![p].temp_file = temp_file_path,
                             ![p].requests = @ \o <<"assemblyai">>]
    /\ pc' = [pc EXCEPT ![p] = "stt_wait"]
    /\ UNCHANGED <<config, sessions, heap, nextUuid, opsStarted, resp, calls>>

\* Step 3: get_recent_messages, LLMRequest, llm_service.generate_response
VoiceLlm(p) ==
    /\ pc[p] = "llm"
    /\ LET l == loc[p]
           chat_history == GetRecentMessages(l.session_id, RECENT_LIMIT) IN
       IF LLMRequestRaises(l.transcription)
       THEN /\ Done(p, OnException(l, ValidationErrorText))
            /\ UNCHANGED <<loc, calls>>
       ELSE \E outcome \in LlmRemote(config) :
              LET llm_response ==
                      GenerateResponse(config, LLMRequest(l.transcription, l.session_id), outcome)
                  response_text ==
                      IF ~llm_response.success
                      THEN IF Falsy(llm_response.fallback_response)
                           THEN "I'm having trouble processing your request."
                           ELSE llm_response.fallback_response
                      ELSE llm_response.response
              IN  /\ calls' = [calls EXCEPT ![p] = Append(@, "llm")]
                  /\ Advance(p, [l EXCEPT !.llm = outcome,
                                          !.requests = @ \o LlmRequests(config),
                                          !.context_parts =
                                              ContextSent(config,
                                                  LLMRequest(l.transcription, l.session_id),
                                                  chat_history),
                                          !.llm_success = llm_response.success,
                                          !.response_text = response_text])
    /\ UNCHANGED <<config, tempFiles, sessions, heap, nextUuid, opsStarted>>

\* Step 3 when Gemini never answers: generate_content is called without a
\* timeout (LLM_TIMEOUT is not passed on), the thread waits in it
VoiceLlmBlocks(p) ==
    /\ pc[p] = "llm"
    /\ ~LLMRequestRaises(loc[p].transcription)
    /\ LlmIsAvailable(config)
    /\ loc' = [loc EXCEPT ![p].requests = @ \o <<"gemini">>]
    /\ pc' = [pc EXCEPT ![p] = "llm_wait"]
    /\ UNCHANGED <<config, tempFiles, sessions, heap, nextUuid, opsStarted, resp, calls>>

\* Step 5: TTSRequest, tts_service.synthesize_speech
VoiceTts(p) ==
    /\ pc[p] = "tts"
    /\ LET l == loc[p] IN
       IF TTSRequestRaises(l.response_text)
       THEN /\ Done(p, OnException(l, ValidationErrorText))
            /\ UNCHANGED <<loc, calls>>
       ELSE \E outcome \in TtsRemote(config) :
              LET tts_response ==
                    SynthesizeSpeech(config, TTSRequest(l.response_text), outcome)
              IN  /\ calls' = [calls EXCEPT ![p] = Append(@, "tts")]
                  /\ Advance(p, [l EXCEPT !.tts = outcome,
                                          !.requests = @ \o TtsRequests(config, outcome),
                                          !.tts_success = tts_response.success,
                                          !.audio_url = tts_response.audio_url])
    /\ UNCHANGED <<config, tempFiles, sessions, heap, nextUuid, opsStarted>>

\* a step 6 whose fallback_used looks at the generation only
VoiceFinalGenerationOnly(p) ==
    /\ pc[p] = "final"
    /\ LET l == loc[p]
           updated_history == GetChatHistory(l.session_id) IN
       Done(p, VoiceQueryResponse(TRUE, l.transcription, l.response_text,
                                  IF l.tts_success THEN l.audio_url ELSE None,
                                  l.confidence, updated_history, l.session_id,
                                  Len(updated_history), None, None,
                                  ~l.llm_success))
    /\ UNCHANGED <<config, tempFiles, sessions, heap, nextUuid, opsStarted, loc, calls>>

\* Step 6: get_chat_history and the VoiceQueryResponse
VoiceFinal(p) ==
    /\ pc[p] = "final"
    /\ LET l == loc[p]
           updated_history == GetChatHistory(l.session_id) IN
       Done(p, VoiceQueryResponse(TRUE, l.transcription, l.response_text,
                                  IF l.tts_success THEN l.audio_url ELSE None,
                                  l.confidence, updated_history, l.session_id,
                                  Len(updated_history), None, None,
                                  ~l.llm_success \/ ~l.tts_success))
    /\ UNCHANGED <<config, tempFiles, sessions, heap, nextUuid, opsStarted, loc, calls>>


\* ----------------------------------------- ChatHistoryManager.add_message
\* The caller returns from add_message: the pipeline goes on with its next
\* stage, a direct call hands back True.
AddMessageReturn(p, l) ==
    IF l.op = "voice"
    THEN Advance(p, l)
    ELSE /\ Done(p, [kind |-> "store", result |-> TRUE])
         /\ loc' = [loc EXCEPT ![p] = l]

\* if session_id not in self.sessions: session_id = self.create_session()
AddMessageCheck(p) ==
    /\ pc[p] = "am_check"
    /\ IF loc[p].am_session_id \notin DOMAIN sessions
       THEN LET session_id == Uuid(nextUuid) IN
            /\ nextUuid' = nextUuid + 1
            /\ heap' = heap @@ (session_id :> NewSession(session_id))
            /\ sessions' = sessions @@ (session_id :> session_id)
            /\ loc' = [loc EXCEPT ![p].am_session_id = session_id]
       ELSE UNCHANGED <<nextUuid, heap, sessions, loc>>
    /\ pc' = [pc EXCEPT ![p] = "am_append"]
    /\ UNCHANGED <<config, tempFiles, opsStarted, resp, calls>>

\* session = self.sessions[session_id]; session.messages.append(message);
\* and the evaluation of len(session.messages)
AddMessageAppend(p) ==
    /\ pc[p] = "am_append"
    /\ LET l == loc[p] IN
       IF l.am_session_id \notin DOMAIN sessions
       THEN /\ Done(p, OnException(l, "KeyError: '" \o l.am_session_id \o "'"))
            /\ UNCHANGED <<heap, loc, calls>>
       ELSE LET ref == sessions[l.am_session_id]
                messages == Append(heap[ref].messages, ChatMessage(l.am_role, l.am_content))
            IN  /\ heap' = [heap EXCEPT ![ref].messages = messages]
                /\ loc' = [loc EXCEPT ![p].am_count = Len(messages)]
                /\ calls' = [calls EXCEPT ![p] = Append(@, "append_" \o l.am_role)]
                /\ pc' = [pc EXCEPT ![p] = "am_count"]
                /\ UNCHANGED resp
    /\ UNCHANGED <<config, tempFiles, sessions, nextUuid, opsStarted>>

\* session.message_count = <the length evaluated>; return True
AddMessageCount(p) ==
    /\ pc[p] = "am_count"
    /\ LET l == loc[p] IN
       /\ heap' = [heap EXCEPT ![l.am_session_id].message_count = l.am_count]
       /\ AddMessageReturn(p, l)
    /\ UNCHANGED <<config, tempFiles, sessions, nextUuid, opsStarted, calls>>

\* ------------------------------------------ direct calls of the store
\* chat_manager.add_message(session_id, role, content), content fresh per call
StoreAppend(p) ==
    /\ \E session_id \in ForeignIds \cup DOMAIN sessions :
         Start(p, [NoLocals EXCEPT !.op = "append", !.session_id = session_id,
                                   !.am_session_id = session_id, !.am_role = "user",
                                   !.am_content = "msg-" \o ToString(opsStarted + 1),
                                   !.known0 = session_id \in DOMAIN sessions,
                                   !.hist0 = GetChatHistory(session_id)],
               "am_check")
    /\ UNCHANGED <<config, tempFiles, sessions, heap, nextUuid>>

\* chat_manager.create_session()
StoreCreateSession(p) ==
    /\ LET session_id == Uuid(nextUuid) IN
       /\ nextUuid' = nextUuid + 1
       /\ heap' = heap @@ (session_id :> NewSession(session_id))
       /\ sessions' = sessions @@ (session_id :> session_id)
       /\ StartDone(p, [NoLocals EXCEPT !.op = "create"], <<>>,
                    [kind |-> "store", result |-> session_id])
    /\ UNCHANGED <<config, tempFiles>>

\* the session ids a caller can pass: made up, or the key of a session that
\* is stored or was stored earlier
CallerIds == ForeignIds \cup DOMAIN heap

\* what thread p returned from last
Prev(p) ==
    IF pc[p] = "done" THEN [op |-> loc[p].op, session_id |-> loc[p].session_id] ELSE NoPrev

\* chat_manager.clear_session(session_id):  if session_id in self.sessions
StoreClear(p) ==
    /\ \E session_id \in CallerIds :
         LET l == [NoLocals EXCEPT !.op = "clear", !.session_id = session_id,
                                   !.known0 = session_id \in DOMAIN sessions,
                                   !.hist0 = GetChatHistory(session_id),
                                   !.prev = Prev(p)] IN
         IF session_id \in DOMAIN sessions
         THEN Start(p, l, "clear_del")
         ELSE StartDone(p, l, <<>>, [kind |-> "store", result |-> FALSE])
    /\ UNCHANGED <<config, tempFiles, sessions, heap, nextUuid>>

\* a clear_session that returns True and leaves the session stored
StoreClearDelKeeping(p) ==
    /\ pc[p] = "clear_del"
    /\ Done(p, [kind |-> "store", result |-> TRUE])
    /\ UNCHANGED <<config, tempFiles, sessions, heap, nextUuid, opsStarted, loc, calls>>

\* del self.sessions[session_id]; return True
StoreClearDel(p) ==
    /\ pc[p] = "clear_del"
    /\ LET l == loc[p] IN
       IF l.session_id \notin DOMAIN sessions
       THEN /\ Done(p, OnException(l, "KeyError: '" \o l.session_id \o "'"))
            /\ UNCHANGED sessions
       ELSE /\ sessions' = [k \in DOMAIN sessions \ {l.session_id} |-> sessions[k]]
            /\ Done(p, [kind |-> "store", result |-> TRUE])
    /\ UNCHANGED <<config, tempFiles, heap, nextUuid, opsStarted, loc, calls>>

\* the limits a direct caller passes to get_recent_messages
Limits == 0..MaxLimit

\* locals of a read of the store by thread p
ReadLocals(p, op, session_id, limit) ==
    [NoLocals EXCEPT !.op = op, !.session_id = session_id, !.limit = limit,
                     !.known0 = session_id \in DOMAIN sessions,
                     !.hist0 = GetChatHistory(session_id),
                     !.prev = Prev(p)]

\* a get_chat_history that stores a new session for an unknown id
StoreHistoryCreating(p) ==
    \E session_id \in CallerIds :
       /\ StartDone(p, ReadLocals(p, "history", session_id, 0), <<>>,
                    [kind |-> "store", result |-> GetChatHistory(session_id),
                     alias |-> HistoryRef(session_id)])
       /\ IF session_id \in DOMAIN sessions
          THEN UNCHANGED <<sessions, heap>>
          ELSE /\ heap' = heap @@ (session_id :> NewSession(session_id))
               /\ sessions' = sessions @@ (session_id :> session_id)
       /\ UNCHANGED <<config, tempFiles, nextUuid>>

\* chat_manager.get_chat_history(session_id): result is what the list holds
\* when it is returned, alias the session whose own list it is
StoreHistory(p) ==
    /\ \E session_id \in CallerIds :
         StartDone(p, ReadLocals(p, "history", session_id, 0), <<>>,
                   [kind |-> "store", result |-> GetChatHistory(session_id),
                    alias |-> HistoryRef(session_id)])
    /\ UNCHANGED <<config, tempFiles, sessions, heap, nextUuid>>

\* chat_manager.get_recent_messages(session_id, limit): the slice is a list
\* of its own
StoreRecent(p) ==
    /\ \E session_id \in CallerIds, limit \in Limits :
         StartDone(p, ReadLocals(p, "recent", session_id, limit), <<>>,
                   [kind |-> "store", result |-> GetRecentMessages(session_id, limit),
                    alias |-> None])
    /\ UNCHANGED <<config, tempFiles, sessions, heap, nextUuid>>

\* chat_manager.get_session_stats()
StoreStats(p) ==
    /\ StartDone(p, ReadLocals(p, "stats", None, 0), <<>>,
                 [kind |-> "store", result |-> GetSessionStats])
    /\ UNCHANGED <<config, tempFiles, sessions, heap, nextUuid>>

\* ------------------------------------------------------ specification
\* A thread that starts an operation has not yet written to the store; no
\* more than n operations are started in a behaviour.
Track(p, n) ==
    /\ mutated' = [Cleared(mutated, p, FALSE) EXCEPT ![p] =
                     (~Idle(p) /\ @) \/ sessions' # sessions \/ heap' # heap]
    /\ opsStarted' <= n

\* a request can be taken: thread p is the one to serve it, and fewer than n
\* operations were started
Ready(p, n) == CanStart(p) /\ opsStarted < n

\* Request threads serving voice queries, and callers of the session store
Next ==
    \E p \in Procs :
       \/ HandleVoiceQuery(p) /\ Track(p, MaxOps)
       \/ VoiceStt(p) /\ Track(p, MaxOps)
       \/ VoiceSttBlocks(p) /\ Track(p, MaxOps)
       \/ VoiceLlm(p) /\ Track(p, MaxOps)
       \/ VoiceLlmBlocks(p) /\ Track(p, MaxOps)
       \/ VoiceTts(p) /\ Track(p, MaxOps)
       \/ VoiceFinal(p) /\ Track(p, MaxOps)
       \/ AddMessageCheck(p) /\ Track(p, MaxOps)
       \/ AddMessageAppend(p) /\ Track(p, MaxOps)
       \/ AddMessageCount(p) /\ Track(p, MaxOps)
       \/ StoreAppend(p) /\ Track(p, MaxOps)
       \/ StoreCreateSession(p) /\ Track(p, MaxOps)
       \/ StoreClear(p) /\ Track(p, MaxOps)
       \/ StoreClearDel(p) /\ Track(p, MaxOps)

Spec == Init /\ [][Next]_vars

\* One operation at a time: p runs while every other thread is idle
Alone(p) == \A q \in Procs : Idle(q) \/ q = p

NextSeq ==
    \E p \in Procs :
       \/ Alone(p) /\ HandleVoiceQuery(p) /\ Track(p, MaxOps)
       \/ Alone(p) /\ VoiceStt(p) /\ Track(p, MaxOps)
       \/ Alone(p) /\ VoiceSttBlocks(p) /\ Track(p, MaxOps)
       \/ Alone(p) /\ VoiceLlm(p) /\ Track(p, MaxOps)
       \/ Alone(p) /\ VoiceLlmBlocks(p) /\ Track(p, MaxOps)
       \/ Alone(p) /\ VoiceTts(p) /\ Track(p, MaxOps)
       \/ Alone(p) /\ VoiceFinal(p) /\ Track(p, MaxOps)
       \/ Alone(p) /\ AddMessageCheck(p) /\ Track(p, MaxOps)
       \/ Alone(p) /\ AddMessageAppend(p) /\ Track(p, MaxOps)
       \/ Alone(p) /\ AddMessageCount(p) /\ Track(p, MaxOps)
       \/ Alone(p) /\ StoreAppend(p) /\ Track(p, MaxOps)
       \/ Alone(p) /\ StoreCreateSession(p) /\ Track(p, MaxOps)
       \/ Alone(p) /\ StoreClear(p) /\ Track(p, MaxOps)
       \/ Alone(p) /\ StoreClearDel(p) /\ Track(p, MaxOps)

SeqSpec == Init /\ [][NextSeq]_vars

\* the steps of thread p that return from a call: a thread that can run is
\* scheduled. Nothing obliges a remote service to answer.
Run(p) ==
    /\ Alone(p)
    /\ \/ VoiceStt(p) \/ VoiceLlm(p) \/ VoiceTts(p) \/ VoiceFinal(p)
       \/ AddMessageCheck(p) \/ AddMessageAppend(p) \/ AddMessageCount(p)
       \/ StoreClearDel(p)
    /\ Track(p, MaxOps)

\* One request at a time, every thread that can go on does
LiveSpec == SeqSpec /\ \A p \in Procs : WF_vars(Run(p))

\* Text queries: they read and write nothing of the session store
NextText == \E p \in Procs : HandleTextQuery(p) /\ Track(p, MaxOps)

TextSpec == Init /\ [][NextText]_vars

\* histories a caller hands to generate_response: n messages of the roles
\* the pipeline stores (add_user_message, add_assistant_message), in turn
Roles == <<"user", "assistant">>

ChatHistoryOf(n, first) ==
    [i \in 1..n |-> ChatMessage(Roles[((first + i) % 2) + 1], "message " \o ToString(i))]

HistoryLengths == {0, 1, CONTEXT_MESSAGES - 1, CONTEXT_MESSAGES, MaxHistory}

ChatHistories == {ChatHistoryOf(n, first) : n \in HistoryLengths, first \in 0..1}

PromptTexts == {"Hello", " what is this "}

\* A direct call of llm_service.generate_response(request, chat_history)
LlmGenerate(p) ==
    /\ \E text \in PromptTexts, include_history \in BOOLEAN,
          chat_history \in ChatHistories, outcome \in LlmRemote(config) :
         LET request == [LLMRequest(text, None) EXCEPT !.include_history = include_history]
             l == [NoLocals EXCEPT !.op = "generate", !.text = text, !.llm = outcome,
                                   !.requests = LlmRequests(config),
                                   !.context_parts =
                                       ContextSent(config, request, chat_history)] IN
         StartDone(p, l, <<"llm">>,
             [kind |-> "generate", request |-> request, chat_history |-> chat_history,
              context |-> IF LlmIsAvailable(config)
                          THEN PrepareContext(request, chat_history) ELSE None,
              result |-> GenerateResponse(config, request, outcome)])
    /\ UNCHANGED <<config, tempFiles, sessions, heap, nextUuid>>

\* Direct calls of the generation client
NextPrompt == \E p \in Procs : Ready(p, MaxOps) /\ LlmGenerate(p) /\ Track(p, MaxOps)

PromptSpec == Init /\ [][NextPrompt]_vars

\* The service started in any environment
InitAnyEnvironment ==
    /\ config \in Environments
    /\ sessions = << >>
    /\ heap = << >>
    /\ nextUuid = 1
    /\ opsStarted = 0
    /\ pc = [p \in Procs |-> "idle"]
    /\ loc = [p \in Procs |-> NoLocals]
    /\ resp = [p \in Procs |-> NoResponse]
    /\ calls = [p \in Procs |-> <<>>]
    /\ mutated = [p \in Procs |-> FALSE]
    /\ tempFiles = {}

\* The routes that call one service each, one request at a time
NextService ==
    \E p \in Procs :
       \/ Ready(p, MaxOps) /\ HealthCheck(p) /\ Track(p, MaxOps)
       \/ Ready(p, MaxOps) /\ TextToSpeech(p) /\ Track(p, MaxOps)
       \/ Ready(p, MaxOps) /\ TranscribeAudioRoute(p) /\ Track(p, MaxOps)
       \/ Ready(p, MaxOps) /\ HandleTextQuery(p) /\ Track(p, MaxOps)

ServiceSpec == InitAnyEnvironment /\ [][NextService]_vars

\* Concurrent callers of the session store alone
NextStore ==
    \E p \in Procs :
       \/ StoreAppend(p) /\ Track(p, MaxStoreOps)
       \/ AddMessageCheck(p) /\ Track(p, MaxStoreOps)
       \/ AddMessageAppend(p) /\ Track(p, MaxStoreOps)
       \/ AddMessageCount(p) /\ Track(p, MaxStoreOps)
       \/ StoreCreateSession(p) /\ Track(p, MaxStoreOps)
       \/ StoreClear(p) /\ Track(p, MaxStoreOps)
       \/ StoreClearDel(p) /\ Track(p, MaxStoreOps)
       \/ StoreHistory(p) /\ Track(p, MaxStoreOps)
       \/ StoreRecent(p) /\ Track(p, MaxStoreOps)

StoreSpec == Init /\ [][NextStore]_vars

\* One caller of the session store at a time, reads included
NextStoreSeq ==
    \E p \in Procs :
       \/ Alone(p) /\ StoreAppend(p) /\ Track(p, MaxStoreOps)
       \/ Alone(p) /\ AddMessageCheck(p) /\ Track(p, MaxStoreOps)
       \/ Alone(p) /\ AddMessageAppend(p) /\ Track(p, MaxStoreOps)
       \/ Alone(p) /\ AddMessageCount(p) /\ Track(p, MaxStoreOps)
       \/ Alone(p) /\ StoreCreateSession(p) /\ Track(p, MaxStoreOps)
       \/ Alone(p) /\ StoreClear(p) /\ Track(p, MaxStoreOps)
       \/ Alone(p) /\ StoreClearDel(p) /\ Track(p, MaxStoreOps)
       \/ Alone(p) /\ StoreHistory(p) /\ Track(p, MaxStoreOps)
       \/ Alone(p) /\ StoreRecent(p) /\ Track(p, MaxStoreOps)
       \/ Alone(p) /\ StoreStats(p) /\ Track(p, MaxStoreOps)

StoreSeqSpec == Init /\ [][NextStoreSeq]_vars


\* ================================================================ claims
Called(p, c) == \E i \in 1..Len(calls[p]) : calls[p][i] = c

Last(seq) == seq[Len(seq)]

\* p has returned from a voice query that went through _process_voice_pipeline
VoiceReturned(p) ==
    pc[p] = "done" /\ loc[p].op = "voice" /\ resp[p].kind = "voice"

\* C1 (SeqSpec): after a voice pipeline invocation with session id s that
\* returns success, the history of s is its history before the call followed
\* by the user message (the transcription) and the assistant message (the
\* assistant text); the response's chat_history is that history and its
\* message_count the prior count plus 2.
C1_HistoryGrowsByTwo ==
    \A p \in Procs :
       (VoiceReturned(p) /\ resp[p].success) =>
          LET r == resp[p]
              expected == loc[p].hist0 \o <<ChatMessage("user", r.transcription),
                                            ChatMessage("assistant", r.llm_response)>>
          IN  /\ GetChatHistory(r.session_id) = expected
              /\ r.chat_history = expected
              /\ r.message_count = Len(loc[p].hist0) + 2

\* C2 (SeqSpec): append(id, role, content) with an id unknown to the store
\* creates a session under that same id, whose history then ends with the
\* appended message.
C2_AppendCreatesUnderGivenId ==
    \A p \in Procs :
       (pc[p] = "done" /\ loc[p].op = "append" /\ ~loc[p].known0) =>
          /\ loc[p].session_id \in DOMAIN sessions
          /\ GetChatHistory(loc[p].session_id) # <<>>
          /\ Last(GetChatHistory(loc[p].session_id))
               = ChatMessage(loc[p].am_role, loc[p].am_content)

\* a text that is non-empty after trimming and shorter than 10000 characters
ValidText(text) == ~Falsy(text) /\ Strip(text) # "" /\ Len(text) < LLM_MAX_LENGTH

\* C3 (TextSpec): every valid text input is answered with success=true and a
\* non-empty assistant text, also when the generation fails or is unconfigured.
C3_TextQueryAlwaysAnswers ==
    \A p \in Procs :
       (pc[p] = "done" /\ loc[p].op = "text" /\ ValidText(loc[p].text)) =>
          /\ resp[p].kind = "llm"
          /\ resp[p].success
          /\ ~Falsy(resp[p].response)

\* C4 (TextSpec): a text query that succeeds has appended the user message and
\* then the assistant message to a session, which so counts 2 messages.
C4_TextQueryAppendsToSession ==
    \A p \in Procs :
       (pc[p] = "done" /\ loc[p].op = "text" /\ resp[p].kind = "llm" /\ resp[p].success) =>
          \E k \in DOMAIN sessions :
             /\ heap[sessions[k]].messages
                  = <<ChatMessage("user", resp[p].query),
                      ChatMessage("assistant", resp[p].response)>>
             /\ heap[sessions[k]].message_count = 2

\* C5 (SeqSpec): once the transcription has succeeded and the Responder has
\* been called, the voice pipeline returns success=true whatever the
\* generation and the synthesis did and whatever the assistant text is.
C5_NoHardFailureAfterTranscription ==
    \A p \in Procs :
       (VoiceReturned(p) /\ Called(p, "llm")) => resp[p].success


\* C6 (SeqSpec): when the Responder fails the pipeline does not abort: the
\* response has success=true and fallback_used=true, the assistant text of the
\* response and of the assistant message the invocation appended is the
\* contextual fallback for the user's text, the Synthesizer is called, and its
\* audio reference is present in the response when it succeeds.
C6_FallbackOnResponderFailure ==
    \A p \in Procs :
       (pc[p] = "done" /\ loc[p].op = "voice" /\ Called(p, "llm") /\ ~loc[p].llm_success) =>
          LET r == resp[p]
              fallback == GenerateContextualFallback(loc[p].transcription)
          IN  /\ r.kind = "voice"
              /\ r.success
              /\ r.fallback_used
              /\ r.transcription = loc[p].transcription
              /\ r.llm_response = fallback
              /\ Last(heap[loc[p].am_session_id].messages) = ChatMessage("assistant", fallback)
              /\ Called(p, "tts")
              /\ loc[p].tts_success => ~Falsy(r.audio_url)

C6_Witness ==
    \E p \in Procs :
       /\ pc[p] = "done" /\ loc[p].op = "voice" /\ Called(p, "llm")
       /\ ~loc[p].llm_success /\ loc[p].tts_success
       /\ resp[p].success /\ resp[p].fallback_used /\ ~Falsy(resp[p].audio_url)

\* the recognised text is absent, empty or blank
BlankRecognised(outcome) ==
    outcome.kind = "completed" /\ (Falsy(outcome.text) \/ IsBlank(outcome.text))

\* C7 (SeqSpec): when the transcription fails, an empty or blank recognised
\* text included (an STT_ERROR), the voice pipeline returns success=false with
\* the Transcriber's error category and message, calls neither the Responder
\* nor the Synthesizer, and has written nothing to the session store.
C7_TranscriptionFailureIsFatal ==
    \A p \in Procs :
       (loc[p].op = "voice" /\ Called(p, "stt")) =>
          LET stt_response == TranscribeAudio(config, loc[p].stt) IN
          /\ ~stt_response.success =>
                /\ pc[p] = "done"
                /\ resp[p] = VoiceFailure(stt_response.error, stt_response.error_type,
                                          loc[p].session_id)
                /\ calls[p] = <<"stt">>
                /\ ~mutated[p]
          /\ BlankRecognised(loc[p].stt) =>
                /\ pc[p] = "done"
                /\ resp[p].kind = "voice" /\ ~resp[p].success
                /\ resp[p].error_type = "stt_error"
                /\ calls[p] = <<"stt">>
                /\ ~mutated[p]

C7_Witness ==
    \E p \in Procs :
       /\ pc[p] = "done" /\ loc[p].op = "voice" /\ Called(p, "stt")
       /\ loc[p].stt.kind = "completed" /\ loc[p].stt.text = " "
       /\ resp[p].kind = "voice" /\ resp[p].error_type = "stt_error"
       /\ sessions # << >>

\* C8 (SeqSpec): an upload that fails validation, such as setup.exe, is
\* answered with INPUT_ERROR; no capability client has been called and
\* nothing has been written to the session store.
C8_InvalidAudioRejected ==
    \A p \in Procs :
       (/\ loc[p].op = "voice"
        /\ \/ ValidateAudioFile(loc[p].file) # None
           \/ loc[p].file.filename = "setup.exe") =>
          /\ pc[p] = "done"
          /\ resp[p].kind = "error" /\ ~resp[p].success
          /\ resp[p].error_type = "input_error"
          /\ calls[p] = <<>>
          /\ ~mutated[p]

C8_Witness ==
    \E p \in Procs :
       /\ pc[p] = "done" /\ loc[p].op = "voice"
       /\ loc[p].file.filename = "setup.exe"
       /\ resp[p].kind = "error" /\ resp[p].error_type = "input_error"
       /\ sessions # << >>

IsPrefix(a, b) == Len(a) <= Len(b) /\ SubSeq(b, 1, Len(a)) = a

Holds(messages, message) == \E i \in 1..Len(messages) : messages[i] = message

\* C9 (SeqSpec): in a voice pipeline invocation the transcription, the append
\* of the user message, the generation, the append of the assistant message
\* and the synthesis happen in this order: when the Responder is about to be
\* called the user message is stored, and when the Synthesizer is about to be
\* called the assistant message is.
C9_StagesInOrder ==
    \A p \in Procs :
       loc[p].op = "voice" =>
          /\ IsPrefix(calls[p], <<"stt", "append_user", "llm", "append_assistant", "tts">>)
          /\ pc[p] = "llm" =>
                /\ loc[p].am_session_id \in DOMAIN heap
                /\ Holds(heap[loc[p].am_session_id].messages,
                         ChatMessage("user", loc[p].transcription))
          /\ pc[p] = "tts" =>
                /\ loc[p].am_session_id \in DOMAIN heap
                /\ Holds(heap[loc[p].am_session_id].messages,
                         ChatMessage("assistant", loc[p].response_text))

C9_Witness ==
    \E p \in Procs :
       /\ VoiceReturned(p) /\ resp[p].success
       /\ calls[p] = <<"stt", "append_user", "llm", "append_assistant", "tts">>

\* the appends to session id s that have returned
Appended(s) ==
    {p \in Procs : pc[p] = "done" /\ loc[p].op = "append" /\ loc[p].session_id = s
                   /\ resp[p].kind = "store"}

Occurrences(messages, message) ==
    Cardinality({i \in 1..Len(messages) : messages[i] = message})

\* the appends to session id s have all started from the same history
SamePrior(s) ==
    /\ Appended(s) = Procs
    /\ \A p, q \in Procs : loc[p].hist0 = loc[q].hist0

\* C10 (StoreSpec): when concurrent appends to one session id, each with its
\* own content and all started from the same history, have all returned, the
\* history of that id is the prior history followed by the appended messages,
\* each once: its length is the prior length plus the number of appends.
C10_NoLostAppend ==
    \A s \in ForeignIds \cup DOMAIN heap :
       SamePrior(s) =>
          LET history == GetChatHistory(s) IN
          \A p \in Procs :
             /\ Occurrences(history, ChatMessage(loc[p].am_role, loc[p].am_content)) = 1
             /\ IsPrefix(loc[p].hist0, history)
             /\ Len(history) = Len(loc[p].hist0) + NumProcs

\* no thread is inside add_message
NoAppendInProgress == \A p \in Procs : pc[p] \notin {"am_check", "am_append", "am_count"}

\* C11 (StoreSpec): whenever no append is in progress, interleaved appends of
\* concurrent callers included, the message_count of each stored session
\* equals the length of its message list.
C11_CountEqualsLength ==
    NoAppendInProgress =>
       \A k \in DOMAIN sessions :
          heap[sessions[k]].message_count = Len(heap[sessions[k]].messages)

\* thread p has returned from the store operation op
StoreReturned(p, op) == pc[p] = "done" /\ loc[p].op = op /\ resp[p].kind = "store"

\* the last min(n, total) messages, in arrival order
LastMin(messages, n) ==
    LET total == Len(messages)
        k == IF n < total THEN n ELSE total
    IN  SubSeq(messages, total - k + 1, total)

\* C12 (StoreSeqSpec): get_recent_messages(id, n) called right after an
\* append, for any n >= 0 (0 and n above the total included), returns the
\* last min(n, total) messages of the session in arrival order.
C12_RecentReturnsLastMin ==
    \A p \in Procs :
       (StoreReturned(p, "recent") /\ loc[p].prev.op = "append") =>
          resp[p].result = LastMin(GetChatHistory(loc[p].session_id), loc[p].limit)

\* C13 (StoreSeqSpec): get_chat_history(id) and get_recent_messages(id, n)
\* on an id the store does not hold return the empty sequence and write
\* nothing: the id is still unknown afterwards.
C13_ReadOfUnknownIdCreatesNothing ==
    \A p \in Procs :
       (pc[p] = "done" /\ loc[p].op \in {"history", "recent"} /\ ~loc[p].known0) =>
          /\ resp[p].kind = "store"
          /\ resp[p].result = <<>>
          /\ ~mutated[p]
          /\ loc[p].session_id \notin DOMAIN sessions

C13_Witness ==
    \E p \in Procs :
       /\ StoreReturned(p, "history") /\ ~loc[p].known0
       /\ loc[p].prev.op = "append"
       /\ resp[p].result = <<>>
       /\ sessions # << >>

\* C14 (StoreSeqSpec): clear_session(id) returns True exactly when a session
\* was stored under id, and the session is removed; a second clear_session(id)
\* returns False without raising, and get_chat_history(id) is empty afterwards.
C14_ClearIsIdempotent ==
    \A p \in Procs :
       (pc[p] = "done" /\ loc[p].op = "clear") =>
          /\ resp[p].kind = "store"
          /\ resp[p].result = loc[p].known0
          /\ loc[p].session_id \notin DOMAIN sessions
          /\ GetChatHistory(loc[p].session_id) = <<>>
          /\ loc[p].prev = [op |-> "clear", session_id |-> loc[p].session_id] =>
                resp[p].result = FALSE

C14_Witness ==
    \E p \in Procs :
       /\ StoreReturned(p, "clear")
       /\ loc[p].prev = [op |-> "clear", session_id |-> loc[p].session_id]
       /\ loc[p].session_id \in DOMAIN heap
       /\ heap[loc[p].session_id].messages # <<>>
       /\ resp[p].result = FALSE

RECURSIVE SumHistoryLengths(_)
\* the sum of the lengths of the histories of the session ids ids
SumHistoryLengths(ids) ==
    IF ids = {} THEN 0
    ELSE LET k == CHOOSE x \in ids : TRUE
         IN  Len(GetChatHistory(k)) + SumHistoryLengths(ids \ {k})

\* C15 (StoreSeqSpec): after any sequence of create_session, add_message and
\* clear_session calls, get_session_stats reports the number of stored
\* sessions, the sum of the lengths of their histories, and as active exactly
\* the session ids whose history is not empty.
C15_StatsMatchStore ==
    \A p \in Procs :
       StoreReturned(p, "stats") =>
          /\ resp[p].result.total_sessions = Cardinality(DOMAIN sessions)
          /\ resp[p].result.total_messages = SumHistoryLengths(DOMAIN sessions)
          /\ resp[p].result.active_sessions =
                {k \in DOMAIN sessions : GetChatHistory(k) # <<>>}

C15_Witness ==
    \E p \in Procs :
       /\ StoreReturned(p, "stats")
       /\ resp[p].result.total_sessions = 2
       /\ resp[p].result.total_messages = 1
       /\ Cardinality(resp[p].result.active_sessions) = 1

\* C16 (SeqSpec): when transcribe_audio has returned, on whichever path
\* (success, failed recognition, an exception at any step, saving the upload
\* included), the temporary file it created does not exist any more.
C16_TempFileRemoved ==
    \A p \in Procs :
       (loc[p].op = "voice" /\ Called(p, "stt") /\ loc[p].temp_file # None) =>
          loc[p].temp_file \notin tempFiles

\* the remote service did not deliver: transport error, timeout, error
\* status, or a reply that is malformed or empty
SttOutcomeFails(outcome) ==
    \/ outcome.kind \in {"mkstemp_raises", "save_raises", "raises", "error"}
    \/ BlankRecognised(outcome)

LlmOutcomeFails(outcome) ==
    outcome.kind = "raises" \/ (outcome.kind = "text" /\ Falsy(outcome.text))

TtsOutcomeFails(outcome) ==
    outcome.kind \in {"timeout", "request_exception", "exception", "status",
                      "bad_json", "no_audio"}

\* a result with success=false carries an error category and a message
IsStageResult(r) ==
    /\ r.success \in BOOLEAN
    /\ ~r.success => (r.error_type \in ErrorTypes /\ ~Falsy(r.error))

\* C17 (SeqSpec): transcribe_audio, generate_response and synthesize_speech
\* hand every transport error, timeout and malformed remote reply back as a
\* result with success=false and an error category: the pipeline goes on to
\* read the result, no exception of a client reaches it.
C17_ClientsNeverRaise ==
    \A p \in Procs :
       loc[p].op = "voice" =>
          /\ Called(p, "stt") =>
                LET r == TranscribeAudio(config, loc[p].stt) IN
                /\ IsStageResult(r)
                /\ SttOutcomeFails(loc[p].stt) => ~r.success
                /\ ~r.success => (pc[p] = "done" /\ resp[p].error_type = r.error_type)
          /\ Called(p, "llm") =>
                LET r == GenerateResponse(config,
                            LLMRequest(loc[p].transcription, loc[p].session_id), loc[p].llm)
                IN  /\ IsStageResult(r)
                    /\ LlmOutcomeFails(loc[p].llm) => ~r.success
                    /\ loc[p].llm_success = r.success
          /\ Called(p, "tts") =>
                LET r == SynthesizeSpeech(config, TTSRequest(loc[p].response_text), loc[p].tts)
                IN  /\ IsStageResult(r)
                    /\ TtsOutcomeFails(loc[p].tts) => ~r.success
                    /\ loc[p].tts_success = r.success
                    /\ pc[p] \in {"final", "done"}
                    /\ pc[p] = "done" => resp[p].success

C17_Witness ==
    \E p \in Procs :
       /\ VoiceReturned(p) /\ resp[p].success
       /\ loc[p].llm.kind = "raises"
       /\ loc[p].tts.kind = "no_audio"
       /\ loc[p].requests = <<"assemblyai", "gemini", "murf">>

\* thread p's voice pipeline ended inside one of its stages after the
\* transcription: an exception was raised there
RaisedInPipeline(p) ==
    /\ loc[p].op = "voice" /\ pc[p] = "done"
    /\ loc[p].stage \in {"append_user", "llm", "append_assistant", "tts"}

InAddMessage(p) == pc[p] \in {"am_check", "am_append", "am_count"}

\* C18 (SeqSpec): an exception raised in a stage of the voice pipeline after
\* the transcription (the request models rejecting the text included) is
\* turned into a response with success=false, GENERAL_ERROR and the session id
\* of the invocation; the pipeline never ends by raising.
C18_PipelineCatchesExceptions ==
    \A p \in Procs :
       loc[p].op = "voice" =>
          /\ pc[p] = "done" => resp[p].kind \in {"voice", "error"}
          /\ RaisedInPipeline(p) =>
                /\ ~resp[p].success
                /\ resp[p].error_type = "general_error"
                /\ resp[p].session_id = loc[p].session_id
                /\ Prefix(resp[p].error, 25) = "Voice processing failed: "
          /\ (/\ Called(p, "append_user") /\ ~InAddMessage(p) /\ pc[p] # "llm"
              /\ LLMRequestRaises(loc[p].transcription)) =>
                (RaisedInPipeline(p) /\ ~Called(p, "llm"))
          /\ (/\ Called(p, "append_assistant") /\ ~InAddMessage(p) /\ pc[p] # "tts"
              /\ TTSRequestRaises(loc[p].response_text)) =>
                (RaisedInPipeline(p) /\ ~Called(p, "tts"))

C18_Witness ==
    \E p \in Procs :
       /\ RaisedInPipeline(p) /\ loc[p].stage = "tts"
       /\ Called(p, "append_assistant")
       /\ resp[p].error_type = "general_error"
       /\ resp[p].session_id = loc[p].session_id

\* C19 (SeqSpec): nothing is retried: in one voice pipeline invocation the
\* Transcriber, the Responder and the Synthesizer are each called at most
\* once, and each issues at most one remote request, failed or not.
C19_NoRetry ==
    \A p \in Procs :
       loc[p].op = "voice" =>
          /\ \A c \in {"stt", "llm", "tts"} : Occurrences(calls[p], c) <= 1
          /\ \A r \in {"assemblyai", "gemini", "murf"} : Occurrences(loc[p].requests, r) <= 1
          /\ Len(loc[p].requests) <= 3

C19_Witness ==
    \E p \in Procs :
       /\ VoiceReturned(p) /\ resp[p].success /\ resp[p].fallback_used
       /\ loc[p].llm.kind = "raises"
       /\ loc[p].tts.kind = "timeout"
       /\ calls[p] = <<"stt", "append_user", "llm", "append_assistant", "tts">>
       /\ loc[p].requests = <<"assemblyai", "gemini", "murf">>

\* C20 (LiveSpec): every voice pipeline invocation eventually returns a
\* response, also when a remote service never answers: each remote call ends
\* by its timeout, which is handled as the failure of its stage.
C20_EveryInvocationReturns ==
    \A p \in Procs :
       (loc[p].op = "voice" /\ pc[p] # "done") ~> (pc[p] = "done")

\* --------------------------------------------- the three service clients
\* a credential is configured: set, not empty, and not the sample value
Configured(value, placeholder) == value # None /\ value # "" /\ value # placeholder

SttConfigured(cfg) == Configured(cfg.ASSEMBLYAI_API_KEY, "your_assemblyai_api_key_here")

LlmConfigured(cfg) == Configured(cfg.GEMINI_API_KEY, "your_gemini_api_key_here")

TtsConfigured(cfg) ==
    /\ Configured(cfg.MURF_API_KEY, "your_murf_api_key_here")
    /\ Configured(cfg.MURF_API_URL, "your_murf_api_url_here")

\* thread p returned from the route op after calling its service
ServiceReturned(p, op) ==
    pc[p] = "done" /\ loc[p].op = op /\ resp[p].kind \in {"stt", "llm", "tts"}

\* C21 (ServiceSpec): each client reports itself available exactly when
\* every credential it needs is configured; a client that is not configured
\* answers with a CONFIG_ERROR failure and issues no remote request.
C21_AvailableIffConfigured ==
    \A p \in Procs :
       /\ (pc[p] = "done" /\ loc[p].op = "health") =>
             /\ resp[p].services.stt = SttConfigured(config)
             /\ resp[p].services.llm = LlmConfigured(config)
             /\ resp[p].services.tts = TtsConfigured(config)
       /\ (ServiceReturned(p, "transcribe") /\ ~SttConfigured(config)) =>
             /\ ~resp[p].result.success
             /\ resp[p].result.error_type = "config_error"
             /\ loc[p].requests = <<>>
       /\ (ServiceReturned(p, "text") /\ ~LlmConfigured(config)) =>
             /\ ~resp[p].success
             /\ resp[p].error_type = "config_error"
             /\ loc[p].requests = <<>>
       /\ (ServiceReturned(p, "tts") /\ ~TtsConfigured(config)) =>
             /\ ~resp[p].result.success
             /\ resp[p].result.error_type = "config_error"
             /\ loc[p].requests = <<>>

\* C22 (TextSpec): generate_response returns success=true only with a reply
\* that is not empty once trimmed; a remote error, or a reply that is empty
\* or only white space, gives success=false without response text and with a
\* contextual fallback that is not empty.
C22_SuccessOnlyWithText ==
    \A p \in Procs :
       ServiceReturned(p, "text") =>
          /\ resp[p].success => (~Falsy(resp[p].response) /\ Strip(resp[p].response) # "")
          /\ (loc[p].llm.kind = "raises"
                \/ (loc[p].llm.kind = "text" /\ IsBlank(loc[p].llm.text))) =>
                /\ ~resp[p].success
                /\ resp[p].response = None
                /\ ~Falsy(resp[p].fallback_response)

\* C23 (ServiceSpec): the payload of a client's result is there exactly when
\* the result is a success. transcribe_audio succeeds exactly when the remote
\* transcript completed without error and its text is not empty once trimmed,
\* and then returns the trimmed text; a failure carries no transcription.
\* synthesize_speech returns an audio URL that is not empty on success and
\* none on failure.
C23_PayloadIffSuccess ==
    \A p \in Procs :
       /\ ServiceReturned(p, "transcribe") =>
             LET r == resp[p].result
                 o == loc[p].stt
             IN  /\ r.success = (/\ o.kind = "completed"
                                 /\ ~Falsy(o.text)
                                 /\ Strip(o.text) # "")
                 /\ r.success => (r.transcription = Strip(o.text) /\ ~Falsy(r.transcription))
                 /\ ~r.success => r.transcription = None
       /\ ServiceReturned(p, "tts") =>
             LET r == resp[p].result IN
             /\ r.success => ~Falsy(r.audio_url)
             /\ ~r.success => r.audio_url = None

C23_Witness ==
    \E p \in Procs :
       /\ ServiceReturned(p, "transcribe")
       /\ loc[p].stt.text = " hi there "
       /\ resp[p].result.success
       /\ resp[p].result.transcription = "hi there"

\* what a client does with an emergency fallback: base64.b64decode of the
\* part after the prefix, then bytes.decode('utf-8')
DataPrefix == "data:text/plain;base64,"

B64Value(c) == (CHOOSE k \in 1..Len(B64Alphabet) : CharAt(B64Alphabet, k) = c) - 1

RECURSIVE B64DecodeFrom(_, _)
B64DecodeFrom(s, i) ==
    IF i + 3 > Len(s) THEN <<>>
    ELSE LET v1 == B64Value(CharAt(s, i))
             v2 == B64Value(CharAt(s, i + 1))
             c3 == CharAt(s, i + 2)
             c4 == CharAt(s, i + 3)
             first == <<v1 * 4 + v2 \div 16>>
         IN  IF c3 = "=" THEN first
             ELSE LET v3 == B64Value(c3)
                      second == <<(v2 % 16) * 16 + v3 \div 4>>
                  IN  IF c4 = "=" THEN first \o second
                      ELSE first \o second \o <<(v3 % 4) * 64 + B64Value(c4)>>
                              \o B64DecodeFrom(s, i + 4)

B64Decode(s) == B64DecodeFrom(s, 1)

AsciiChar(code) ==
    IF code < 96 THEN CharAt(AsciiLow, code - 31) ELSE CharAt(AsciiHigh, code - 96)

RECURSIVE Utf8DecodeFrom(_, _)
Utf8DecodeFrom(bytes, i) ==
    IF i > Len(bytes) THEN "" ELSE AsciiChar(bytes[i]) \o Utf8DecodeFrom(bytes, i + 1)

Utf8Decode(bytes) == Utf8DecodeFrom(bytes, 1)

IsDataReference(f) ==
    /\ f # None
    /\ Len(f) >= Len(DataPrefix)
    /\ SubSeq(f, 1, Len(DataPrefix)) = DataPrefix

DecodeDataReference(f) == Utf8Decode(B64Decode(SubSeq(f, Len(DataPrefix) + 1, Len(f))))

\* C24 (ServiceSpec): every failure result of synthesize_speech (not
\* configured, timeout, transport error, status other than 200, no audio
\* URL, unparsable body) carries an emergency fallback that is a data URL of
\* the text of the request; decoding it gives back exactly that text.
C24_FailureCarriesFallback ==
    \A p \in Procs :
       (ServiceReturned(p, "tts") /\ ~resp[p].result.success) =>
          /\ IsDataReference(resp[p].result.emergency_fallback)
          /\ DecodeDataReference(resp[p].result.emergency_fallback)
                = TTSRequest(loc[p].text).text

C24_Witness ==
    \E p \in Procs :
       /\ ServiceReturned(p, "tts")
       /\ loc[p].text = "Sure."
       /\ loc[p].tts.kind = "bad_json"
       /\ ~resp[p].result.success
       /\ resp[p].result.emergency_fallback = "data:text/plain;base64,U3VyZS4="

\* C25 (ServiceSpec): the failures of synthesize_speech are categorised by
\* their cause: a timeout is TIMEOUT_ERROR, another transport failure is
\* NETWORK_ERROR, credentials that are absent or the sample value are
\* CONFIG_ERROR, and a reply of status 200 whose body cannot be parsed or
\* holds no audio URL is API_ERROR.
C25_FailureCategories ==
    \A p \in Procs :
       ServiceReturned(p, "tts") =>
          LET r == resp[p].result
              o == loc[p].tts
          IN  /\ ~TtsConfigured(config) => r.error_type = "config_error"
              /\ (TtsConfigured(config) /\ o.kind = "timeout") =>
                    r.error_type = "timeout_error"
              /\ (TtsConfigured(config) /\ o.kind = "request_exception") =>
                    r.error_type = "network_error"
              /\ (TtsConfigured(config) /\ o.kind \in {"bad_json", "no_audio"}) =>
                    (~r.success /\ r.error_type = "api_error")

\* the text query accepts a text whose length after trimming is 1..10000
Accepted(text) ==
    /\ text # None
    /\ Len(Strip(text)) >= 1
    /\ Len(Strip(text)) <= LLM_MAX_LENGTH

\* C26 (TextSpec): the text query accepts a text exactly when its length
\* after trimming is between 1 and 10000. A rejected text (absent, empty,
\* white space only, too long) is answered with INPUT_ERROR and no service is
\* called; for an accepted text the trimmed text reaches generate_response.
C26_TextAcceptedIffInRange ==
    \A p \in Procs :
       (pc[p] = "done" /\ loc[p].op = "text") =>
          IF Accepted(loc[p].text)
          THEN /\ calls[p] = <<"llm">>
               /\ resp[p].kind = "llm"
               /\ resp[p].query = Strip(loc[p].text)
          ELSE /\ calls[p] = <<>>
               /\ resp[p].kind = "error"
               /\ resp[p].error_type = "input_error"

\* what makes an upload invalid: no file or an empty filename, a declared
\* size above 16 MiB, or a last dot-delimited segment of the filename that,
\* lower-cased, is none of the five formats
InvalidUpload(file) ==
    \/ file.filename = None
    \/ file.filename = ""
    \/ file.content_length > 16 * 1024 * 1024
    \/ Lower(LastSegment(file.filename)) \notin {"webm", "wav", "mp3", "m4a", "ogg"}

\* C27 (ServiceSpec): validate_audio_file returns an error exactly for an
\* invalid upload (a declared size of exactly 16 MiB is accepted), and a
\* rejected upload has had no effect: no file saved, no service called,
\* nothing written to the store.
C27_AudioRejectedIffInvalid ==
    \A p \in Procs :
       (pc[p] = "done" /\ loc[p].op = "transcribe") =>
          /\ (resp[p].kind = "error") = InvalidUpload(loc[p].file)
          /\ InvalidUpload(loc[p].file) =>
                /\ resp[p].error_type = "input_error"
                /\ calls[p] = <<>>
                /\ loc[p].requests = <<>>
                /\ loc[p].temp_file = None
                /\ ~mutated[p]

C27_Witness ==
    \E p \in Procs :
       /\ pc[p] = "done" /\ loc[p].op = "transcribe"
       /\ loc[p].file = [filename |-> "Voice.Memo.WAV", content_length |-> 16 * 1024 * 1024]
       /\ resp[p].kind = "stt"
       /\ calls[p] = <<"stt">>

\* the generation of thread p's pipeline failed: the service is not
\* configured, the remote call raised, or it returned no text
GenerationFailed(p) == loc[p].llm = NotCalled \/ LlmOutcomeFails(loc[p].llm)

\* the synthesis of thread p's pipeline failed: the service is not
\* configured, or the remote call did not return an audio URL
SynthesisFailed(p) == loc[p].tts = NotCalled \/ TtsOutcomeFails(loc[p].tts)

\* C28 (SeqSpec): in every successful response of the voice pipeline,
\* fallback_used is true exactly when the generation or the synthesis
\* failed, and the audio URL is present exactly when the synthesis succeeded.
C28_FallbackFlagAndAudio ==
    \A p \in Procs :
       (VoiceReturned(p) /\ resp[p].success) =>
          /\ resp[p].fallback_used = (GenerationFailed(p) \/ SynthesisFailed(p))
          /\ (resp[p].audio_url # None) = ~SynthesisFailed(p)

C28_Witness ==
    \E p \in Procs :
       /\ VoiceReturned(p) /\ resp[p].success
       /\ loc[p].llm.kind = "text" /\ loc[p].llm_success
       /\ loc[p].tts.kind = "timeout"
       /\ resp[p].fallback_used
       /\ resp[p].audio_url = None

\* the keyword families in the order of their evaluation, with their replies
Families ==
    <<[keywords |-> GreetingWords,
       reply |-> "Hello! I'm having some technical difficulties with my AI brain, but I'm here to help as best I can."],
      [keywords |-> WellBeingWords,
       reply |-> "I'm experiencing some technical issues right now, but thank you for asking! How can I help you?"],
      [keywords |-> GratitudeWords,
       reply |-> "You're very welcome! Though I should mention I'm having some connectivity issues at the moment."],
      [keywords |-> FarewellWords,
       reply |-> "Goodbye! Sorry for any technical difficulties during our conversation. Hope to chat again soon!"],
      [keywords |-> HelpWords,
       reply |-> "I'd love to help you! I'm currently experiencing some technical difficulties, but I'll do my best to assist."],
      [keywords |-> QuestionWords,
       reply |-> "That's a great question! Unfortunately, I'm having trouble accessing my full knowledge base right now, but please try asking again in a moment."]>>

\* the families one of whose keywords occurs in the lower-cased text
Matching(text) ==
    {i \in DOMAIN Families : \E w \in Families[i].keywords : Contains(Lower(text), w)}

OtherReplyPrefix == "I heard you mention something about '"

\* thread p returned from a text query whose generation failed
TextQueryFellBack(p) == ServiceReturned(p, "text") /\ ~resp[p].success

\* C29 (TextSpec): the contextual fallback is the reply of the first family,
\* in the order greeting, well-being, gratitude, farewell, help, question
\* word, one of whose keywords occurs in the lower-cased text; the reply that
\* quotes the text is given only when no family matches.
C29_FirstMatchingFamily ==
    \A p \in Procs :
       TextQueryFellBack(p) =>
          LET m == Matching(resp[p].query) IN
          IF m = {}
          THEN IsPrefix(OtherReplyPrefix, resp[p].fallback_response)
          ELSE \E i \in m :
                  /\ \A j \in m : i <= j
                  /\ resp[p].fallback_response = Families[i].reply

C29_Witness ==
    \E p \in Procs :
       /\ TextQueryFellBack(p)
       /\ resp[p].query = "what is this"
       /\ Matching(resp[p].query) = {1, 6}
       /\ resp[p].fallback_response = Families[1].reply

Letters == {CharAt("abcdefghijklmnopqrstuvwxyz", k) : k \in 1..26}

\* w occurs in s at position i as a word of its own: no letter touches it
WordAt(s, w, i) ==
    /\ i + Len(w) - 1 <= Len(s)
    /\ SubSeq(s, i, i + Len(w) - 1) = w
    /\ i > 1 => CharAt(s, i - 1) \notin Letters
    /\ i + Len(w) <= Len(s) => CharAt(s, i + Len(w)) \notin Letters

OccursAsWord(s, w) == \E i \in 1..Len(s) : WordAt(s, w, i)

LedByQuestionWord(text) == \E w \in QuestionWords : WordAt(Lower(text), w, 1)

\* C30 (TextSpec): a text that begins with a question word and holds no
\* greeting, well-being, gratitude, farewell or help keyword as a word of
\* its own gets the reply of the question family ("what is this" is
\* answered as a question, not as a greeting).
C30_QuestionNotGreeting ==
    \A p \in Procs :
       (/\ TextQueryFellBack(p)
        /\ LedByQuestionWord(resp[p].query)
        /\ \A i \in 1..5 : \A w \in Families[i].keywords :
              ~OccursAsWord(Lower(resp[p].query), w)) =>
          resp[p].fallback_response = Families[6].reply

\* the reply of the 'other' branch around a preview of the text
OtherReply(preview) ==
    "I heard you mention something about '" \o preview
      \o "'. I'm experiencing some technical difficulties, but I'm trying to help as best I can."

\* C31 (TextSpec): when no family matches, the reply quotes the text
\* unchanged if it has at most 50 characters, and its first 50 characters
\* followed by "..." otherwise: never more than 50 characters of the text.
C31_PreviewAtMostFifty ==
    \A p \in Procs :
       (TextQueryFellBack(p) /\ Matching(resp[p].query) = {}) =>
          LET text == resp[p].query IN
          /\ Len(text) <= 50 => resp[p].fallback_response = OtherReply(text)
          /\ Len(text) > 50 =>
                resp[p].fallback_response = OtherReply(SubSeq(text, 1, 50) \o "...")

C31_Witness ==
    \E p \in Procs :
       /\ TextQueryFellBack(p)
       /\ Len(resp[p].query) = 51
       /\ Matching(resp[p].query) = {}
       /\ Len(resp[p].fallback_response) = Len(OtherReply("")) + 53

\* ---------------------------------------------------------------- C32
\* a direct call of generate_response by p sent a prompt
PromptSent(p) ==
    /\ pc[p] = "done"
    /\ resp[p].kind = "generate"
    /\ loc[p].context_parts # <<>>

\* the lines of a prompt between its system instruction and its user turn,
\* without the heading of the history
HistoryEntries(parts) ==
    LET between == SubSeq(parts, 2, Len(parts) - 2) IN
    IF between # <<>> /\ between[1] = "\nConversation History:" THEN Tail(between)
    ELSE between

LabelOf(role) == IF role = "user" THEN "User" ELSE "Assistant"

UserTurns(parts, text) ==
    Cardinality({i \in 1..Len(parts) : parts[i] \in {"User: " \o text, "\nUser: " \o text}})

\* C38: in the prompt the voice pipeline sends to the generation, the current
\* user text appears exactly once: it is not both an entry of the history and
\* the current turn of the user.
C38_UtteranceOnceInPrompt ==
    \A p \in Procs :
       (loc[p].op = "voice" /\ loc[p].context_parts # <<>>) =>
          UserTurns(loc[p].context_parts, loc[p].transcription) = 1

\* ---------------------------------------------------------------- C33
\* C33: an append never raises, whatever other operations of the store run
\* at the same time: an append to a session that another caller clears
\* meanwhile still returns, and its message is stored.
C33_AppendNeverRaises ==
    \A p \in Procs :
       (pc[p] = "done" /\ loc[p].op = "append") =>
          /\ resp[p].kind = "store"
          /\ \E k \in DOMAIN sessions :
                /\ sessions[k] \in DOMAIN heap
                /\ \E i \in 1..Len(heap[sessions[k]].messages) :
                      heap[sessions[k]].messages[i] = ChatMessage("user", loc[p].am_content)

\* ---------------------------------------------------------------- C34
\* what the sequence a read handed to thread p holds now
ReturnedSequence(p) ==
    IF resp[p].alias \in DOMAIN heap THEN heap[resp[p].alias].messages ELSE resp[p].result

\* C34: the sequence returned by a read of the history or of the recent
\* messages of a session is a snapshot: it holds what it held when it was
\* returned, also after another caller appends to the session.
C34_ReadsAreSnapshots ==
    \A p \in Procs :
       (pc[p] = "done" /\ loc[p].op \in {"history", "recent"} /\ resp[p].kind = "store") =>
          ReturnedSequence(p) = resp[p].result

\* ---------------------------------------------------------------- C35
EndsWith(s, t) == Len(t) <= Len(s) /\ SubSeq(s, Len(s) - Len(t) + 1, Len(s)) = t

\* the texts of the exceptions raised while thread p ran its operation
ExceptionTexts(p) ==
    {o.text : o \in {o \in {loc[p].stt, loc[p].llm, loc[p].tts} :
                        o.kind \in {"mkstemp_raises", "save_raises", "raises",
                                    "timeout", "request_exception", "exception"}}}
       \cup {ValidationErrorText}

\* the error of the failure thread p returned, None when it returned none
ReturnedError(p) ==
    IF pc[p] # "done" THEN None
    ELSE IF resp[p].kind = "voice" /\ ~resp[p].success THEN resp[p].error
    ELSE IF resp[p].kind \in {"tts", "stt"} /\ ~resp[p].result.success
    THEN resp[p].result.error
    ELSE None

\* C35: no result of the pipeline or of a capability client carries the text
\* of an internal exception: the error of a failure is a fixed message of the
\* category of the failure, never made from the exception caught.
C35_NoExceptionTextReturned ==
    \A p \in Procs :
       ReturnedError(p) # None =>
          \A text \in ExceptionTexts(p) : ~EndsWith(ReturnedError(p), text)

\* ---------------------------------------------------------------- C36
\* C36: a voice query that returns success = false leaves the session store
\* as it was: no failure, the general error raised after the generation
\* included, leaves a user or an assistant message behind.
C36_FailureLeavesStoreUntouched ==
    \A p \in Procs :
       (pc[p] = "done" /\ resp[p].kind = "voice" /\ ~resp[p].success) => ~mutated[p]

\* ---------------------------------------------------------------- C37
\* C37: a voice query adds at most one session to the store, and only under
\* the session id its response reports: after the first query on an empty
\* store every stored session has the id that was returned to the caller.
C37_OnlyReportedSessionStored ==
    \A p \in Procs :
       (pc[p] = "done" /\ resp[p].kind = "voice" /\ opsStarted = 1) =>
          DOMAIN sessions \subseteq {resp[p].session_id}

=============================================================================
